---- MODULE Spec2Model ----
(***************************************************************************)
(* Process-and-state supervision layer of cape: PID registry, state store, *)
(* workflow launcher / daemon, stale and orphan cleanup, and two-phase     *)
(* process termination.                                                    *)
(*                                                                         *)
(* Several specifications share the variables:                             *)
(*   SpecTerm   terminate_process against an arbitrary process table       *)
(*   SpecClean  the cleanup operations over an arbitrary on-disk store     *)
(*   SpecFS     write_pid / write_state / read_* at file-operation grain   *)
(*   Spec       launcher, daemon, stop and cleanup interleaved             *)
(*   SpecMon    WorkflowMonitor.get_workflow_status and its cache          *)
(*   SpecWait   WorkflowMonitor.wait_for_completion, with fairness         *)
(*   SpecList   WorkflowMonitor.list_active_workflows over any store       *)
(*   SpecUpd    two concurrent update_state callers, step by step          *)
(*   SpecIO     what write_pid / write_state store and read_* parse        *)
(*   SpecWatch  StateFileEventHandler: callbacks, events, debounce         *)
(*   SpecSweep  cleanup_completed_workflows over any store and any age     *)
(*   SpecMerge  update_state over any stored record and any updates        *)
(*   SpecWatchFair  SpecWatch with a clock that keeps advancing            *)
(*   SpecObserver   on_modified on the observer thread, owner interleaved  *)
(*   SpecStop   one stop_workflow on any PID file, with fairness           *)
(*   SpecReuse  stop_workflow after the daemon died and its pid was reused *)
(***************************************************************************)
EXTENDS Integers, Sequences, FiniteSets, TLC

(* ------------------------------ bounds --------------------------------- *)
MaxPid == 2
MaxWorkflows == 2
MaxTimeout == 1
MaxJitter == 1
MaxClock == 6
MaxWatchClock == 4

(* ------------------------- program constants --------------------------- *)
\* time.time() is counted in ticks of one poll interval (0.1 s)
PollInterval == 1
KillGrace == 5
TicksPerSecond == 10

SIGTERM == "SIGTERM"
SIGKILL == "SIGKILL"

Pids == 1..MaxPid
PidArgs == (-1)..MaxPid
Timeouts == 0..MaxTimeout

VARIABLES
    alive,              \* process table: pid -> a process with this pid exists
    disp,               \* pid -> what the process does on SIGTERM
    owned,              \* pid -> the caller may signal the process (no EPERM)
    hasPsutil,          \* HAS_PSUTIL of this build of process_utils
    shutdown_requested, \* workflow_daemon.shutdown_requested of the daemon
    time,               \* time.time(), in ticks
    signals,            \* the os.kill(pid, sig) calls made so far, sig # 0
    tp,                 \* the frame of terminate_process
    pidDir,             \* runtime dir: stem of each *.pid file -> its text
    stateDir,           \* state dir: stem of each *.json file -> its content
    now,                \* datetime.now(): hours in SpecClean, seconds elsewhere
    ret,                \* the last whole operation run, and what it returned
    wr,                 \* the frame of write_pid / write_state, step by step
    rd,                 \* the last read_pid / read_state and what it returned
    ln,                 \* the frame of launch_workflow
    dm,                 \* the frame of workflow_daemon.main
    sw,                 \* the frame of stop_workflow
    cl,                 \* the frame of a cleanup pass (stale PIDs, then orphans)
    mon,                \* WorkflowMonitor: _cache and the frame of wait_for_completion
    hd,                 \* StateFileEventHandler: callbacks, last_event_time, deliveries
    up,                 \* the frames of concurrent update_state callers
    io                  \* a file as a reader finds it, and what the read gave

procVars == <<alive, disp, owned, hasPsutil, shutdown_requested>>
termVars == <<time, signals, tp>>
storeVars == <<pidDir, stateDir, now, ret>>
fileVars == <<wr, rd>>
flowVars == <<ln, dm, sw, cl>>
sideVars == <<mon, hd, up, io>>
\* everything terminate_process neither reads nor writes
restOfTerm == <<storeVars, fileVars, flowVars, sideVars>>
vars == <<alive, disp, owned, hasPsutil, shutdown_requested, time, signals, tp,
          pidDir, stateDir, now, ret, wr, rd, ln, dm, sw, cl, mon, hd, up, io>>

Last(s) == s[Len(s)]
Range(s) == {s[i] : i \in DOMAIN s}

\* Optional[T]: None, or a value
None == <<>>
Some(x) == <<x>>
\* the None of an optional text field of a record
NONE == "None"

NoRet == [op |-> "none", value |-> <<>>]
WrIdle == [pc |-> "idle", kind |-> "none", w |-> "", value |-> <<>>,
           tmp |-> "", prev |-> <<>>, failed |-> "none"]
NoRead == [op |-> "none", w |-> "", value |-> <<>>]
NoUpdates == [status |-> "none"]
LnIdle == [pc |-> "idle"]
DmIdle == [pc |-> "notstarted", st |-> <<>>, updates |-> NoUpdates, after |-> "",
           success |-> FALSE, observed |-> FALSE, exit |-> -1, calls |-> <<>>]
SwIdle == [pc |-> "idle", pid |-> <<>>, timeout |-> 0, st |-> <<>>,
           updates |-> NoUpdates, after |-> "", success |-> FALSE,
           statusAtCall |-> "none"]
ClIdle == [pc |-> "idle", pid |-> <<>>, st |-> <<>>, updates |-> NoUpdates,
           after |-> "", stale |-> <<>>, recovered |-> <<>>]
DmGone == [DmIdle EXCEPT !.pc = "killed"]
FlowIdle ==
    /\ ln = LnIdle
    /\ dm = DmIdle
    /\ sw = SwIdle
    /\ cl = ClIdle
WaitIdle == [pc |-> "idle", timeout |-> <<>>, start |-> 0]
MonIdle == [cache |-> <<>>, seen |-> <<>>, absent |-> FALSE, wait |-> WaitIdle]
\* StateFileEventHandler.__init__: no callbacks, no timestamps; time.time() is
\* far from 0. The clock of the handler counts ticks of 50 ms, so that the
\* debounce interval of 0.1 s is two ticks.
DebounceInterval == 2
\* the frame of on_modified in the observer thread
OmIdle == [pc |-> "idle", event |-> <<>>, callback |-> <<>>, first |-> FALSE]
HdIdle == [callbacks |-> <<>>, last_event_time |-> <<>>, clock |-> DebounceInterval,
           running |-> TRUE, dispatched |-> <<>>, forgotten |-> {}, swallowed |-> {},
           last |-> [event |-> <<>>, outcome |-> "none"], om |-> OmIdle]
\* the processes that call update_state on the record of one workflow
Updaters == {"workflow_daemon", "stop_workflow"}
UpIdle == [u \in Updaters |-> [pc |-> "idle", base |-> <<>>, rec |-> <<>>]]
\* what a call gives back: a value returned, or an exception raised
Return(v) == [out |-> "return", exc |-> "", value |-> v]
Raise(e) == [out |-> "raise", exc |-> e, value |-> <<>>]
\* no PID file and no state file, nothing written, nothing read
NoFile == [c |-> "missing", text |-> <<>>, json |-> <<>>]
IoIdle == [pidFile |-> NoFile, stateFile |-> NoFile, wrotePid |-> <<>>,
           wroteState |-> <<>>, writes |-> 0, op |-> "none", res |-> Return(<<>>)]
SideIdle ==
    /\ mon = MonIdle
    /\ hd = HdIdle
    /\ up = UpIdle
    /\ io = IoIdle

(* --------------------------- process probes ---------------------------- *)
\* What the operating system answers to a probe or a signal for pid > 0.
ProbeOutcome(pid) ==
    IF ~alive[pid] THEN "nosuch"
    ELSE IF owned[pid] THEN "ok" ELSE "denied"

is_process_alive(pid) ==
    IF pid <= 0 THEN FALSE
    ELSE IF hasPsutil
         THEN ProbeOutcome(pid) = "ok"
         ELSE ProbeOutcome(pid) \in {"ok", "denied"}

is_process_running(pid) ==
    IF pid <= 0 THEN FALSE
    ELSE ProbeOutcome(pid) \in {"ok", "denied"}

\* send_signal: the value returned, and what the delivered signal does.
send_signal(pid, sig) ==
    IF pid <= 0 THEN FALSE ELSE ProbeOutcome(pid) = "ok"

AliveAfterSignal(pid, sig) ==
    IF send_signal(pid, sig)
       /\ (sig = SIGKILL \/ (sig = SIGTERM /\ disp[pid] = "default"))
    THEN [alive EXCEPT ![pid] = FALSE]
    ELSE alive

FlagAfterSignal(pid, sig) ==
    IF send_signal(pid, sig) /\ sig = SIGTERM /\ disp[pid] = "handler"
    THEN TRUE
    ELSE shutdown_requested

SignalsAfterSignal(pid, sig) ==
    IF pid <= 0 THEN signals
    ELSE Append(signals, [pid |-> pid, sig |-> sig, ok |-> send_signal(pid, sig),
                          at |-> time])

\* the frame of a daemon the signal ends is gone with the process
DmAfterSignal(pid, sig) ==
    IF dm.pc # "notstarted" /\ alive[pid] /\ ~AliveAfterSignal(pid, sig)[pid]
    THEN DmGone
    ELSE dm

(* -------------------------- terminate_process -------------------------- *)
TpIdle == [pc |-> "idle", pid |-> 0, timeout |-> 0, start |-> 0,
           probe |-> FALSE, result |-> FALSE]

TpEnter(pid, timeout) ==
    [pc |-> "check", pid |-> pid, timeout |-> timeout, start |-> 0,
     probe |-> FALSE, result |-> FALSE]

TpReturn(r) == [tp EXCEPT !.pc = "returned", !.result = r]

\* mutant: the early return for a dead target is missing
TpCheck_NoEarlyReturn ==
    /\ tp.pc = "check"
    /\ tp' = [tp EXCEPT !.pc = "term", !.probe = is_process_alive(tp.pid)]
    /\ UNCHANGED <<procVars, time, signals, restOfTerm>>

\* if not is_process_alive(pid): return True
TpCheck ==
    /\ tp.pc = "check"
    /\ tp' = IF is_process_alive(tp.pid)
             THEN [tp EXCEPT !.pc = "term", !.probe = TRUE]
             ELSE [TpReturn(TRUE) EXCEPT !.probe = FALSE]
    /\ UNCHANGED <<procVars, time, signals, restOfTerm>>

\* if not send_signal(pid, SIGTERM): return False; start_time = time.time()
TpSendTerm ==
    /\ tp.pc = "term"
    /\ alive' = AliveAfterSignal(tp.pid, SIGTERM)
    /\ shutdown_requested' = FlagAfterSignal(tp.pid, SIGTERM)
    /\ signals' = SignalsAfterSignal(tp.pid, SIGTERM)
    /\ tp' = IF send_signal(tp.pid, SIGTERM)
             THEN [tp EXCEPT !.pc = "loop", !.start = time]
             ELSE TpReturn(FALSE)
    /\ dm' = DmAfterSignal(tp.pid, SIGTERM)
    /\ UNCHANGED <<disp, owned, hasPsutil, time, storeVars, fileVars, ln, sw, cl, sideVars>>

\* while time.time() - start_time < timeout:
\*     if not is_process_alive(pid): return True
TpPoll ==
    /\ tp.pc = "loop"
    /\ tp' = IF time - tp.start < tp.timeout * TicksPerSecond
             THEN IF is_process_alive(tp.pid)
                  THEN [tp EXCEPT !.pc = "sleep", !.probe = TRUE]
                  ELSE [TpReturn(TRUE) EXCEPT !.probe = FALSE]
             ELSE [tp EXCEPT !.pc = "killcheck"]
    /\ UNCHANGED <<procVars, time, signals, restOfTerm>>

\*     time.sleep(0.1)
TpSleep ==
    /\ tp.pc = "sleep"
    /\ \E j \in 0..MaxJitter : time' = time + PollInterval + j
    /\ tp' = [tp EXCEPT !.pc = "loop"]
    /\ UNCHANGED <<procVars, signals, restOfTerm>>

\* mutant: no escalation to SIGKILL
TpKillCheck_NoEscalation ==
    /\ tp.pc = "killcheck"
    /\ tp' = [tp EXCEPT !.pc = "final", !.probe = is_process_alive(tp.pid)]
    /\ UNCHANGED <<procVars, time, signals, restOfTerm>>

\* if is_process_alive(pid):
TpKillCheck ==
    /\ tp.pc = "killcheck"
    /\ tp' = IF is_process_alive(tp.pid)
             THEN [tp EXCEPT !.pc = "kill", !.probe = TRUE]
             ELSE [tp EXCEPT !.pc = "final", !.probe = FALSE]
    /\ UNCHANGED <<procVars, time, signals, restOfTerm>>

\*     send_signal(pid, SIGKILL); time.sleep(0.5)
TpSendKill ==
    /\ tp.pc = "kill"
    /\ alive' = AliveAfterSignal(tp.pid, SIGKILL)
    /\ shutdown_requested' = FlagAfterSignal(tp.pid, SIGKILL)
    /\ signals' = SignalsAfterSignal(tp.pid, SIGKILL)
    /\ \E j \in 0..MaxJitter : time' = time + KillGrace + j
    /\ tp' = [tp EXCEPT !.pc = "final"]
    /\ dm' = DmAfterSignal(tp.pid, SIGKILL)
    /\ UNCHANGED <<disp, owned, hasPsutil, storeVars, fileVars, ln, sw, cl, sideVars>>

\* return not is_process_alive(pid)
TpFinal ==
    /\ tp.pc = "final"
    /\ tp' = [TpReturn(~is_process_alive(tp.pid))
                EXCEPT !.probe = is_process_alive(tp.pid)]
    /\ UNCHANGED <<procVars, time, signals, restOfTerm>>

(* ----------------------------- environment ----------------------------- *)
\* A process other than a workflow daemon exits on its own.
ProcExit(p) ==
    /\ alive[p]
    /\ disp[p] # "handler"
    /\ alive' = [alive EXCEPT ![p] = FALSE]
    /\ UNCHANGED <<disp, owned, hasPsutil, shutdown_requested, termVars, restOfTerm>>

(* ------------------------------ SpecTerm ------------------------------- *)
TermCall(pid, timeout) ==
    /\ tp.pc = "idle"
    /\ tp' = TpEnter(pid, timeout)
    /\ UNCHANGED <<procVars, time, signals, restOfTerm>>

InitTerm ==
    /\ alive \in [Pids -> BOOLEAN]
    /\ disp \in [Pids -> {"default", "ignore"}]
    /\ owned \in [Pids -> BOOLEAN]
    /\ hasPsutil \in BOOLEAN
    /\ shutdown_requested = FALSE
    /\ time = 0
    /\ signals = <<>>
    /\ tp = TpIdle
    /\ pidDir = <<>>
    /\ stateDir = <<>>
    /\ now = 0
    /\ ret = NoRet
    /\ wr = WrIdle
    /\ rd = NoRead
    /\ FlowIdle
    /\ SideIdle

NextTerm ==
    \/ \E pid \in PidArgs, t \in Timeouts : TermCall(pid, t)
    \/ TpCheck
    \/ TpSendTerm
    \/ TpPoll
    \/ TpSleep
    \/ TpKillCheck
    \/ TpSendKill
    \/ TpFinal
    \/ \E p \in Pids : ProcExit(p)

SpecTerm == InitTerm /\ [][NextTerm]_vars

(* ============================ the two stores ========================== *)
WfNames == <<"w1", "w2", "w3", "w4">>
WorkflowIds == {WfNames[i] : i \in 1..MaxWorkflows}
\* the pid the operating system gave the daemon spawned for workflow w
DaemonPid(w) == CHOOSE i \in 1..MaxWorkflows : WfNames[i] = w
IssueOf(w) == DaemonPid(w)
\* the name mkstemp gives a temporary file, one per writer
TmpStem == ".tmp_0"

Statuses == {"initializing", "running", "completed", "failed", "stopped"}
ActiveStatuses == {"initializing", "running"}
TerminalStatuses == {"completed", "failed", "stopped"}

OrphanMessage == "Process terminated unexpectedly (orphaned state)"
ExecFailedMessage == "Workflow execution failed"

\* a directory: a function from the stems of the files in it to their content
Remove(dir, f) == [x \in DOMAIN dir \ {f} |-> dir[x]]
Replace(dir, f, c) == [x \in DOMAIN dir \cup {f} |-> IF x = f THEN c ELSE dir[x]]
\* the files a glob lists, in the order the directory yields them
RECURSIVE SeqOf(_)
SeqOf(S) ==
    IF S = {} THEN <<>>
    ELSE LET x == CHOOSE y \in S : TRUE IN <<x>> \o SeqOf(S \ {x})
Glob(dir) == SeqOf(DOMAIN dir)

\* str(pid) and int(text) for the text of a PID file
DigitChars == <<"0", "1", "2", "3", "4", "5", "6", "7", "8", "9">>
RECURSIVE PidText(_)
PidText(n) ==
    IF n < 10 THEN <<DigitChars[n + 1]>>
    ELSE PidText(n \div 10) \o <<DigitChars[(n % 10) + 1]>>
DigitValue(c) == (CHOOSE i \in 1..10 : DigitChars[i] = c) - 1
RECURSIVE IntOf(_)
IntOf(text) ==
    IF Len(text) = 1 THEN DigitValue(text[1])
    ELSE 10 * IntOf(SubSeq(text, 1, Len(text) - 1)) + DigitValue(text[Len(text)])
ParseInt(text) ==
    IF text # <<>> /\ \A i \in 1..Len(text) : text[i] \in Range(DigitChars)
    THEN Some(IntOf(text))
    ELSE None

\* the content of a state file: a JSON document of a record, or text that
\* json.loads rejects (empty or cut short)
Doc(rec) == <<rec>>
Garbage == <<>>

WorkflowState(w, issue, status, pid, started, updated, step, msg) ==
    [workflow_id |-> w, issue_id |-> issue, status |-> status, pid |-> pid,
     started_at |-> started, updated_at |-> updated,
     current_step |-> step, error_message |-> msg]

\* pydantic validation of a record
ValidWorkflowState(rec) == rec.status \in Statuses

read_pid(pdir, w) ==
    IF w \in DOMAIN pdir THEN ParseInt(pdir[w]) ELSE None

delete_pid(pdir, w) == Remove(pdir, w)

read_state(sdir, w) ==
    IF w \in DOMAIN sdir /\ sdir[w] # Garbage /\ ValidWorkflowState(sdir[w][1])
    THEN Some(sdir[w][1])
    ELSE None

\* write_state as one step: the temporary file is written and renamed into place
write_state(sdir, rec) == Replace(sdir, rec.workflow_id, Doc(rec))

delete_state(sdir, w) == Remove(sdir, w)

\* mutant: the merge starts from a fresh record, so current_step is lost
Merge_ResetsStep(rec, updates) ==
    [f \in DOMAIN rec \cup DOMAIN updates |->
        IF f \in DOMAIN updates THEN updates[f]
        ELSE IF f = "current_step" THEN NONE ELSE rec[f]]

Merge(rec, updates) ==
    [f \in DOMAIN rec \cup DOMAIN updates |->
        IF f \in DOMAIN updates THEN updates[f] ELSE rec[f]]

\* update_state as one step: [dir |-> the state dir afterwards, ret |-> returned]
update_state(sdir, w, updates, t) ==
    LET state == read_state(sdir, w) IN
    IF state = None THEN [dir |-> sdir, ret |-> None]
    ELSE LET updated == [Merge(state[1], updates) EXCEPT !.updated_at = t] IN
         IF ValidWorkflowState(updated)
         THEN [dir |-> write_state(sdir, updated), ret |-> Some(updated)]
         ELSE [dir |-> sdir, ret |-> None]

(* --------------------------- cleanup operations ------------------------ *)
\* mutant: a PID file is stale only when unreadable; the process is not probed
IsStale_NoProbe(pdir, w) == read_pid(pdir, w) = None

IsStale(pdir, w) ==
    LET pid == read_pid(pdir, w) IN
    pid = None \/ ~is_process_running(pid[1])

RECURSIVE CleanupStaleLoop(_, _, _)
CleanupStaleLoop(files, pdir, cleaned) ==
    IF files = <<>> THEN [pids |-> pdir, cleaned |-> cleaned]
    ELSE LET w == Head(files) IN
         IF IsStale(pdir, w)
         THEN CleanupStaleLoop(Tail(files), delete_pid(pdir, w), Append(cleaned, w))
         ELSE CleanupStaleLoop(Tail(files), pdir, cleaned)

cleanup_stale_pids(pdir) == CleanupStaleLoop(Glob(pdir), pdir, <<>>)

RECURSIVE ListActiveLoop(_, _, _)
ListActiveLoop(files, pdir, active) ==
    IF files = <<>> THEN active
    ELSE LET w == Head(files)
             pid == read_pid(pdir, w) IN
         IF pid # None /\ is_process_running(pid[1])
         THEN ListActiveLoop(Tail(files), pdir, Append(active, <<w, pid[1]>>))
         ELSE ListActiveLoop(Tail(files), pdir, active)

list_active_workflows(pdir) == ListActiveLoop(Glob(pdir), pdir, <<>>)

IsOrphan(pdir, sdir, w) ==
    /\ w \notin DOMAIN pdir
    /\ LET state == read_state(sdir, w) IN
       state # None /\ state[1].status \in {"initializing", "running"}

RECURSIVE RecoverLoop(_, _, _, _, _)
RecoverLoop(files, pdir, sdir, t, recovered) ==
    IF files = <<>> THEN [states |-> sdir, recovered |-> recovered]
    ELSE LET w == Head(files) IN
         IF IsOrphan(pdir, sdir, w)
         THEN RecoverLoop(Tail(files), pdir,
                  update_state(sdir, w,
                      [status |-> "failed", error_message |-> OrphanMessage], t).dir,
                  t, Append(recovered, w))
         ELSE RecoverLoop(Tail(files), pdir, sdir, t, recovered)

recover_orphaned_workflows(pdir, sdir, t) ==
    RecoverLoop(Glob(sdir), pdir, sdir, t, <<>>)

\* mutant: a record exactly at the cutoff counts as old
IsExpired_AtCutoff(sdir, w, cutoff) ==
    LET state == read_state(sdir, w) IN
    /\ state # None
    /\ state[1].status \in {"completed", "failed", "stopped"}
    /\ state[1].updated_at <= cutoff

IsExpired(sdir, w, cutoff) ==
    LET state == read_state(sdir, w) IN
    /\ state # None
    /\ state[1].status \in {"completed", "failed", "stopped"}
    /\ state[1].updated_at < cutoff

RECURSIVE SweepLoop(_, _, _, _, _)
SweepLoop(files, pdir, sdir, cutoff, cleaned) ==
    IF files = <<>> THEN [pids |-> pdir, states |-> sdir, cleaned |-> cleaned]
    ELSE LET w == Head(files) IN
         IF IsExpired(sdir, w, cutoff)
         THEN SweepLoop(Tail(files), delete_pid(pdir, w), delete_state(sdir, w),
                        cutoff, Append(cleaned, w))
         ELSE SweepLoop(Tail(files), pdir, sdir, cutoff, cleaned)

cleanup_completed_workflows(pdir, sdir, t, max_age_hours) ==
    SweepLoop(Glob(sdir), pdir, sdir, t - max_age_hours, <<>>)

DefaultMaxAgeHours == 24

(* ------------------------------ SpecClean ------------------------------ *)
CleanupStalePids ==
    \E r \in {cleanup_stale_pids(pidDir)} :
        /\ pidDir' = r.pids
        /\ ret' = [op |-> "cleanup_stale_pids", value |-> r.cleaned]
        /\ UNCHANGED <<stateDir, now, procVars, termVars, fileVars, flowVars, sideVars>>

RecoverOrphanedWorkflows ==
    \E r \in {recover_orphaned_workflows(pidDir, stateDir, now)} :
        /\ stateDir' = r.states
        /\ ret' = [op |-> "recover_orphaned_workflows", value |-> r.recovered]
        /\ UNCHANGED <<pidDir, now, procVars, termVars, fileVars, flowVars, sideVars>>

CleanupCompletedWorkflows ==
    \E r \in {cleanup_completed_workflows(pidDir, stateDir, now, DefaultMaxAgeHours)} :
        /\ pidDir' = r.pids
        /\ stateDir' = r.states
        /\ ret' = [op |-> "cleanup_completed_workflows", value |-> r.cleaned]
        /\ UNCHANGED <<now, procVars, termVars, fileVars, flowVars, sideVars>>

\* mutant: orphans are recovered before the stale PID files are removed
WorkflowCleanup_RecoverFirst ==
    \E orphaned \in {recover_orphaned_workflows(pidDir, stateDir, now)} :
    \E stale \in {cleanup_stale_pids(pidDir)} :
    \E old \in {cleanup_completed_workflows(stale.pids, orphaned.states, now,
                                            DefaultMaxAgeHours)} :
        /\ pidDir' = old.pids
        /\ stateDir' = old.states
        /\ ret' = [op |-> "workflow_cleanup",
                   value |-> <<stale.cleaned, orphaned.recovered, old.cleaned>>]
        /\ UNCHANGED <<now, procVars, termVars, fileVars, flowVars, sideVars>>

\* cape workflow cleanup: the three passes in a row
WorkflowCleanup ==
    \E stale \in {cleanup_stale_pids(pidDir)} :
    \E orphaned \in {recover_orphaned_workflows(stale.pids, stateDir, now)} :
    \E old \in {cleanup_completed_workflows(stale.pids, orphaned.states, now,
                                            DefaultMaxAgeHours)} :
        /\ pidDir' = old.pids
        /\ stateDir' = old.states
        /\ ret' = [op |-> "workflow_cleanup",
                   value |-> <<stale.cleaned, orphaned.recovered, old.cleaned>>]
        /\ UNCHANGED <<now, procVars, termVars, fileVars, flowVars, sideVars>>

\* a daemon dies without touching its files
DaemonCrash(w) ==
    /\ alive[DaemonPid(w)]
    /\ alive' = [alive EXCEPT ![DaemonPid(w)] = FALSE]
    /\ ret' = NoRet
    /\ UNCHANGED <<disp, owned, hasPsutil, shutdown_requested, termVars,
                   pidDir, stateDir, now, fileVars, flowVars, sideVars>>

\* the stores a launch, a run, a stop or a crash can leave behind
InitPidFiles ==
    {[w \in S |-> PidText(DaemonPid(w))] : S \in SUBSET WorkflowIds}
InitStateRecords(t) ==
    {WorkflowState(w, IssueOf(w), st, DaemonPid(w), 0, t, NONE,
                   IF st = "failed" THEN ExecFailedMessage ELSE NONE) :
        w \in WorkflowIds, st \in Statuses}
InitStateFiles(t) ==
    {f \in UNION {[S -> InitStateRecords(t)] : S \in SUBSET WorkflowIds} :
        \A w \in DOMAIN f : f[w].workflow_id = w}
\* a writer killed between mkstemp and os.replace leaves its temporary file
InitLeftover(t) ==
    {None, Some(Garbage)}
    \cup {Some(Doc(WorkflowState(WfNames[1], IssueOf(WfNames[1]), st,
                                 DaemonPid(WfNames[1]), 0, t, NONE, NONE))) :
            st \in {"running"}}

InitClean ==
    /\ alive \in [Pids -> BOOLEAN]
    /\ disp = [p \in Pids |-> "handler"]
    /\ owned = [p \in Pids |-> TRUE]
    /\ hasPsutil = FALSE
    /\ shutdown_requested = FALSE
    /\ time = 0
    /\ signals = <<>>
    /\ tp = TpIdle
    /\ now \in {0, DefaultMaxAgeHours + 1}
    /\ pidDir \in InitPidFiles
    /\ \E f \in InitStateFiles(0), l \in InitLeftover(0) :
         stateDir = IF l = None
                    THEN [w \in DOMAIN f |-> Doc(f[w])]
                    ELSE Replace([w \in DOMAIN f |-> Doc(f[w])], TmpStem, l[1])
    /\ ret = NoRet
    /\ wr = WrIdle
    /\ rd = NoRead
    /\ FlowIdle
    /\ SideIdle

NextClean ==
    \/ CleanupStalePids
    \/ RecoverOrphanedWorkflows
    \/ CleanupCompletedWorkflows
    \/ WorkflowCleanup
    \/ \E w \in WorkflowIds : DaemonCrash(w)

SpecClean == InitClean /\ [][NextClean]_vars

(* ======================= SpecFS: writes step by step =================== *)
\* The content a file is created with, and the full text of a value.
EmptyFile == <<>>
FullText(kind, value) == IF kind = "pid" THEN PidText(value) ELSE Doc(value)
DirOf(kind) == IF kind = "pid" THEN pidDir ELSE stateDir
FileOf(dir, f) == IF f \in DOMAIN dir THEN Some(dir[f]) ELSE None
\* what a reader gets from a file that may be absent
ParseFile(kind, file) ==
    IF file = None THEN None
    ELSE IF kind = "pid" THEN ParseInt(file[1])
    ELSE IF file[1] # Garbage /\ ValidWorkflowState(file[1][1])
         THEN Some(file[1][1]) ELSE None

WrActive == wr.pc \in {"mkstemp", "write", "replace", "except"}

SetDir(kind, dir) ==
    /\ pidDir' = IF kind = "pid" THEN dir ELSE pidDir
    /\ stateDir' = IF kind = "pid" THEN stateDir ELSE dir

\* write_pid(workflow_id, pid) / write_state(state) is called
WrBegin(kind, w, value) ==
    /\ ~WrActive
    /\ wr' = [pc |-> "mkstemp", kind |-> kind, w |-> w, value |-> value,
              tmp |-> "", prev |-> FileOf(DirOf(kind), w), failed |-> "none"]
    /\ UNCHANGED <<procVars, termVars, storeVars, rd, flowVars, sideVars>>

\* mutant: the file is opened for writing in place, with no temporary file
WrMkstemp_InPlace ==
    /\ wr.pc = "mkstemp"
    /\ SetDir(wr.kind, Replace(DirOf(wr.kind), wr.w, EmptyFile))
    /\ wr' = [wr EXCEPT !.pc = "write", !.tmp = wr.w]
    /\ UNCHANGED <<procVars, termVars, now, ret, rd, flowVars, sideVars>>

\* fd, temp_path = tempfile.mkstemp(dir=..., prefix=".tmp_", suffix=...)
WrMkstemp ==
    /\ wr.pc = "mkstemp"
    /\ SetDir(wr.kind, Replace(DirOf(wr.kind), TmpStem, EmptyFile))
    /\ wr' = [wr EXCEPT !.pc = "write", !.tmp = TmpStem]
    /\ UNCHANGED <<procVars, termVars, now, ret, rd, flowVars, sideVars>>

\* with os.fdopen(fd, "w") as f: f.write(...) -- or the write fails part way
WrWrite ==
    /\ wr.pc = "write"
    /\ \/ /\ SetDir(wr.kind, Replace(DirOf(wr.kind), wr.tmp, FullText(wr.kind, wr.value)))
          /\ wr' = [wr EXCEPT !.pc = "replace"]
       \/ /\ UNCHANGED <<pidDir, stateDir, sideVars>>
          /\ wr' = [wr EXCEPT !.pc = "except", !.failed = "write"]
    /\ UNCHANGED <<procVars, termVars, now, ret, rd, flowVars, sideVars>>

\* os.replace(temp_path, target) -- atomic, or it fails and changes nothing
WrReplace ==
    /\ wr.pc = "replace"
    /\ \/ /\ SetDir(wr.kind,
                 IF wr.tmp = wr.w THEN DirOf(wr.kind)
                 ELSE Remove(Replace(DirOf(wr.kind), wr.w, DirOf(wr.kind)[wr.tmp]),
                             wr.tmp))
          /\ wr' = [wr EXCEPT !.pc = "returned"]
       \/ /\ UNCHANGED <<pidDir, stateDir, sideVars>>
          /\ wr' = [wr EXCEPT !.pc = "except", !.failed = "replace"]
    /\ UNCHANGED <<procVars, termVars, now, ret, rd, flowVars, sideVars>>

\* mutant: the exception is re-raised without removing the temporary file
WrExcept_NoUnlink ==
    /\ wr.pc = "except"
    /\ wr' = [wr EXCEPT !.pc = "raised"]
    /\ UNCHANGED <<procVars, termVars, storeVars, rd, flowVars, sideVars>>

\* except Exception: try: os.unlink(temp_path) except OSError: pass; raise
WrExcept ==
    /\ wr.pc = "except"
    /\ SetDir(wr.kind, IF wr.tmp \in DOMAIN DirOf(wr.kind)
                       THEN Remove(DirOf(wr.kind), wr.tmp)
                       ELSE DirOf(wr.kind))
    /\ wr' = [wr EXCEPT !.pc = "raised"]
    /\ UNCHANGED <<procVars, termVars, now, ret, rd, flowVars, sideVars>>

ReadPid(w) ==
    /\ rd' = [op |-> "pid", w |-> w, value |-> read_pid(pidDir, w)]
    /\ UNCHANGED <<procVars, termVars, storeVars, wr, flowVars, sideVars>>

ReadState(w) ==
    /\ rd' = [op |-> "state", w |-> w, value |-> read_state(stateDir, w)]
    /\ UNCHANGED <<procVars, termVars, storeVars, wr, flowVars, sideVars>>

\* the records callers pass to write_state
WrittenRecords(w) ==
    {WorkflowState(w, IssueOf(w), st, DaemonPid(w), 0, 0, NONE, NONE) :
        st \in {"initializing", "running"}}

InitFS ==
    /\ alive = [p \in Pids |-> FALSE]
    /\ disp = [p \in Pids |-> "default"]
    /\ \E mine \in BOOLEAN : owned = [p \in Pids |-> mine]
    /\ hasPsutil = FALSE
    /\ shutdown_requested = FALSE
    /\ time = 0
    /\ signals = <<>>
    /\ tp = TpIdle
    /\ pidDir = <<>>
    /\ stateDir = <<>>
    /\ now = 0
    /\ ret = NoRet
    /\ wr = WrIdle
    /\ rd = NoRead
    /\ FlowIdle
    /\ SideIdle

\* writer and readers work on the files of one workflow id
NextFS ==
    \/ \E pid \in Pids : WrBegin("pid", WfNames[1], pid)
    \/ \E rec \in WrittenRecords(WfNames[1]) : WrBegin("state", WfNames[1], rec)
    \/ WrMkstemp
    \/ WrWrite
    \/ WrReplace
    \/ WrExcept
    \/ ReadPid(WfNames[1])
    \/ ReadState(WfNames[1])

SpecFS == InitFS /\ [][NextFS]_vars

(* ============ Spec: launcher, daemon, stop and cleanup interleaved ====== *)
\* One workflow W is launched once, may be stopped once and swept once; each
\* process is a frame that advances one file operation or system call at a
\* time, so update_state is a read step followed by a write step.
W == WfNames[1]
DPid == DaemonPid(W)
ExceptionMessage == "execute_workflow raised"

StatusOf(sdir) ==
    IF read_state(sdir, W) = None THEN "none" ELSE read_state(sdir, W)[1].status

get_workflow_pid(pdir) ==
    IF read_pid(pdir, W) # None /\ is_process_running(read_pid(pdir, W)[1])
    THEN read_pid(pdir, W)
    ELSE None

\* mutant: every readable PID file counts as active, its process is not probed
MonitorListActive_NoProbe(pdir, sdir) ==
    LET files == SelectSeq(Glob(pdir), LAMBDA w : read_pid(pdir, w) # None) IN
    LET kept == SelectSeq(files, LAMBDA w : read_state(sdir, w) # None) IN
    [i \in 1..Len(kept) |-> read_state(sdir, kept[i])[1]]

\* WorkflowMonitor.list_active_workflows: the records of the live PID entries
MonitorListActive(pdir, sdir) ==
    LET active == list_active_workflows(pdir) IN
    LET kept == SelectSeq(active, LAMBDA pair : read_state(sdir, pair[1]) # None) IN
    [i \in 1..Len(kept) |-> read_state(sdir, kept[i][1])[1]]

\* a frame about to call update_state(W, **updates) and then continue at after
CallUpdate(f, updates, after) ==
    [f EXCEPT !.pc = "upd_read", !.updates = updates, !.after = after]
\* update_state, first half: existing_state = read_state(workflow_id)
UpdateRead(f) ==
    LET state == read_state(stateDir, W) IN
    [f EXCEPT !.st = state,
              !.pc = IF state = None THEN f.after ELSE "upd_write"]
\* update_state, second half: merge, stamp, validate and write_state
UpdateWrite(f) ==
    LET updated == [Merge(f.st[1], f.updates) EXCEPT !.updated_at = now] IN
    IF ValidWorkflowState(updated) THEN write_state(stateDir, updated) ELSE stateDir

(* ---------------------------- launch_workflow --------------------------- *)
\* process = subprocess.Popen(cmd, start_new_session=True, ...)
LaunchPopen ==
    /\ ln.pc = "idle"
    /\ ln' = [ln EXCEPT !.pc = "write_pid"]
    /\ alive' = [alive EXCEPT ![DPid] = TRUE]
    /\ dm' = [dm EXCEPT !.pc = "signal"]
    /\ UNCHANGED <<disp, owned, hasPsutil, shutdown_requested, termVars,
                   storeVars, fileVars, sw, cl, sideVars>>

\* Popen raises (no process is created), or write_pid / write_state raises with
\* its target left as it was: except Exception as e: raise RuntimeError(...)
LaunchRaise ==
    /\ ln.pc \in {"idle", "write_pid", "write_state"}
    /\ ln' = [ln EXCEPT !.pc = "raised"]
    /\ UNCHANGED <<procVars, termVars, storeVars, fileVars, dm, sw, cl, sideVars>>

\* PIDFileManager.write_pid(adw_id, process.pid)
LaunchWritePid ==
    /\ ln.pc = "write_pid"
    /\ pidDir' = Replace(pidDir, W, PidText(DPid))
    /\ ln' = [ln EXCEPT !.pc = "write_state"]
    /\ UNCHANGED <<procVars, termVars, stateDir, now, ret, fileVars, dm, sw, cl, sideVars>>

\* StateManager.write_state(WorkflowState(status="initializing", ...)); return adw_id
LaunchWriteState ==
    /\ ln.pc = "write_state"
    /\ stateDir' = write_state(stateDir,
                       WorkflowState(W, IssueOf(W), "initializing", DPid,
                                     now, now, NONE, NONE))
    /\ ln' = [ln EXCEPT !.pc = "returned"]
    /\ UNCHANGED <<procVars, termVars, pidDir, now, ret, fileVars, dm, sw, cl, sideVars>>

(* ---------------------------- workflow_daemon --------------------------- *)
DaemonAt(pcs) == alive[DPid] /\ dm.pc \in pcs
\* main calls update_state(adw_id, **updates); calls lists what main has called
DaemonCall(updates, after) ==
    [CallUpdate(dm, updates, after) EXCEPT !.calls = Append(dm.calls, updates.status)]

\* signal.signal(SIGTERM, handle_shutdown_signal); then update_state(running)
DaemonRegisterSignals ==
    /\ DaemonAt({"signal"})
    /\ disp' = [disp EXCEPT ![DPid] = "handler"]
    /\ dm' = DaemonCall([status |-> "running"], "chk1")
    /\ UNCHANGED <<alive, owned, hasPsutil, shutdown_requested, termVars,
                   storeVars, fileVars, ln, sw, cl, sideVars>>

DaemonUpdateRead ==
    /\ DaemonAt({"upd_read"})
    /\ dm' = UpdateRead(dm)
    /\ UNCHANGED <<procVars, termVars, storeVars, fileVars, ln, sw, cl, sideVars>>

DaemonUpdateWrite ==
    /\ DaemonAt({"upd_write"})
    /\ stateDir' = UpdateWrite(dm)
    /\ dm' = [dm EXCEPT !.pc = dm.after]
    /\ UNCHANGED <<procVars, termVars, pidDir, now, ret, fileVars, ln, sw, cl, sideVars>>

\* mutant: the stop seen before execution returns without delete_pid
DaemonCheckBefore_NoDelete ==
    /\ DaemonAt({"chk1"})
    /\ dm' = IF shutdown_requested
             THEN [DaemonCall([status |-> "stopped"], "return")
                      EXCEPT !.exit = 130, !.observed = TRUE]
             ELSE [dm EXCEPT !.pc = "exec"]
    /\ UNCHANGED <<procVars, termVars, storeVars, fileVars, ln, sw, cl, sideVars>>

\* if shutdown_requested: update_state(stopped); delete_pid; return 130
DaemonCheckBefore ==
    /\ DaemonAt({"chk1"})
    /\ dm' = IF shutdown_requested
             THEN [DaemonCall([status |-> "stopped"], "del")
                      EXCEPT !.exit = 130, !.observed = TRUE]
             ELSE [dm EXCEPT !.pc = "exec"]
    /\ UNCHANGED <<procVars, termVars, storeVars, fileVars, ln, sw, cl, sideVars>>

\* success = execute_workflow(issue_id, adw_id, logger), or it raises
DaemonExecute ==
    /\ DaemonAt({"exec"})
    /\ \E outcome \in {"ok", "fail", "raise"} :
         dm' = IF outcome = "raise"
               THEN [DaemonCall([status |-> "failed",
                                 error_message |-> ExceptionMessage], "del")
                        EXCEPT !.exit = 1]
               ELSE [dm EXCEPT !.pc = "chk2", !.success = (outcome = "ok")]
    /\ UNCHANGED <<procVars, termVars, storeVars, fileVars, ln, sw, cl, sideVars>>

\* mutant: the check after execution is missing
DaemonCheckAfter_NoCheck ==
    /\ DaemonAt({"chk2"})
    /\ dm' = IF dm.success
             THEN [DaemonCall([status |-> "completed"], "del") EXCEPT !.exit = 0]
             ELSE [DaemonCall([status |-> "failed",
                               error_message |-> ExecFailedMessage], "del")
                      EXCEPT !.exit = 1]
    /\ UNCHANGED <<procVars, termVars, storeVars, fileVars, ln, sw, cl, sideVars>>

\* if shutdown_requested: ... return 130; else update_state(completed | failed)
DaemonCheckAfter ==
    /\ DaemonAt({"chk2"})
    /\ dm' = IF shutdown_requested
             THEN [DaemonCall([status |-> "stopped"], "del")
                      EXCEPT !.exit = 130, !.observed = TRUE]
             ELSE IF dm.success
             THEN [DaemonCall([status |-> "completed"], "del") EXCEPT !.exit = 0]
             ELSE [DaemonCall([status |-> "failed",
                               error_message |-> ExecFailedMessage], "del")
                      EXCEPT !.exit = 1]
    /\ UNCHANGED <<procVars, termVars, storeVars, fileVars, ln, sw, cl, sideVars>>

\* PIDFileManager.delete_pid(adw_id)
DaemonDeletePid ==
    /\ DaemonAt({"del"})
    /\ pidDir' = delete_pid(pidDir, W)
    /\ dm' = [dm EXCEPT !.pc = "return", !.calls = Append(@, "delete_pid")]
    /\ UNCHANGED <<procVars, termVars, stateDir, now, ret, fileVars, ln, sw, cl, sideVars>>

\* return exit_code: the process ends
DaemonExit ==
    /\ DaemonAt({"return"})
    /\ alive' = [alive EXCEPT ![DPid] = FALSE]
    /\ dm' = [DmIdle EXCEPT !.pc = "exited", !.exit = dm.exit,
                             !.success = dm.success, !.observed = dm.observed,
                             !.calls = dm.calls]
    /\ UNCHANGED <<disp, owned, hasPsutil, shutdown_requested, termVars,
                   storeVars, fileVars, ln, sw, cl, sideVars>>

(* ----------------------------- stop_workflow ---------------------------- *)
\* mutant: with no PID record stop_workflow reports success
StopReadPid_ReturnsTrue ==
    /\ sw.pc = "idle"
    /\ \E timeout \in Timeouts :
         sw' = IF read_pid(pidDir, W) = None
               THEN [sw EXCEPT !.pc = "returned", !.success = TRUE,
                               !.statusAtCall = StatusOf(stateDir)]
               ELSE [CallUpdate(sw, [status |-> "stopped"], "term")
                        EXCEPT !.pid = read_pid(pidDir, W), !.timeout = timeout,
                               !.statusAtCall = StatusOf(stateDir)]
    /\ UNCHANGED <<procVars, termVars, storeVars, fileVars, ln, dm, cl, sideVars>>

\* pid = read_pid(workflow_id); if pid is None: return False
StopReadPid ==
    /\ sw.pc = "idle"
    /\ \E timeout \in Timeouts :
         sw' = IF read_pid(pidDir, W) = None
               THEN [sw EXCEPT !.pc = "returned", !.success = FALSE,
                               !.statusAtCall = StatusOf(stateDir)]
               ELSE [CallUpdate(sw, [status |-> "stopped"], "term")
                        EXCEPT !.pid = read_pid(pidDir, W), !.timeout = timeout,
                               !.statusAtCall = StatusOf(stateDir)]
    /\ UNCHANGED <<procVars, termVars, storeVars, fileVars, ln, dm, cl, sideVars>>

StopUpdateRead ==
    /\ sw.pc = "upd_read"
    /\ sw' = UpdateRead(sw)
    /\ UNCHANGED <<procVars, termVars, storeVars, fileVars, ln, dm, cl, sideVars>>

StopUpdateWrite ==
    /\ sw.pc = "upd_write"
    /\ stateDir' = UpdateWrite(sw)
    /\ sw' = [sw EXCEPT !.pc = sw.after]
    /\ UNCHANGED <<procVars, termVars, pidDir, now, ret, fileVars, ln, dm, cl, sideVars>>

\* success = terminate_process(pid, timeout=timeout): the call
StopTerminate ==
    /\ sw.pc = "term"
    /\ tp.pc = "idle"
    /\ tp' = TpEnter(sw.pid[1], sw.timeout)
    /\ sw' = [sw EXCEPT !.pc = "wait"]
    /\ UNCHANGED <<procVars, time, signals, storeVars, fileVars, ln, dm, cl, sideVars>>

\* mutant: the PID file is deleted only when the termination succeeded
StopDeletePid_OnlyOnSuccess ==
    /\ sw.pc = "wait"
    /\ tp.pc = "returned"
    /\ pidDir' = IF tp.result THEN delete_pid(pidDir, W) ELSE pidDir
    /\ sw' = [sw EXCEPT !.pc = "final", !.success = tp.result]
    /\ tp' = TpIdle
    /\ UNCHANGED <<procVars, time, signals, stateDir, now, ret, fileVars, ln, dm, cl, sideVars>>

\* ... and its return; then PIDFileManager.delete_pid(workflow_id)
StopDeletePid ==
    /\ sw.pc = "wait"
    /\ tp.pc = "returned"
    /\ pidDir' = delete_pid(pidDir, W)
    /\ sw' = [sw EXCEPT !.pc = "final", !.success = tp.result]
    /\ tp' = TpIdle
    /\ UNCHANGED <<procVars, time, signals, stateDir, now, ret, fileVars, ln, dm, cl, sideVars>>

\* state = read_state(workflow_id) for the best-effort issue update; return success
StopReturn ==
    /\ sw.pc = "final"
    /\ sw' = [SwIdle EXCEPT !.pc = "returned", !.success = sw.success,
                             !.statusAtCall = sw.statusAtCall]
    /\ ret' = [op |-> "stop_workflow", value |-> sw.success]
    /\ UNCHANGED <<procVars, termVars, pidDir, stateDir, now, fileVars, ln, dm, cl, sideVars>>

(* ------------- cleanup_stale_pids, then recover_orphaned_workflows ------ *)
\* cleanup_stale_pids() in one step: a PID file is written once and a dead
\* daemon stays dead, so its glob, read, probe and delete see one answer
CleanupStale ==
    /\ cl.pc = "idle"
    /\ \E r \in {cleanup_stale_pids(pidDir)} :
         /\ pidDir' = r.pids
         /\ cl' = [cl EXCEPT !.pc = "recover", !.stale = r.cleaned]
    /\ UNCHANGED <<procVars, termVars, stateDir, now, ret, fileVars, ln, dm, sw, sideVars>>

\* for state_file in glob("*.json"): if not pid_file.exists():
\*     state = read_state(workflow_id); if state and state.status in [...]:
RecoverRead ==
    /\ cl.pc = "recover"
    /\ cl' = IF IsOrphan(pidDir, stateDir, W)
             THEN [CallUpdate(cl, [status |-> "failed",
                                   error_message |-> OrphanMessage], "done")
                      EXCEPT !.recovered = <<W>>]
             ELSE [cl EXCEPT !.pc = "done"]
    /\ UNCHANGED <<procVars, termVars, storeVars, fileVars, ln, dm, sw, sideVars>>

\*         update_state(workflow_id, status="failed", error_message=...)
RecoverUpdateRead ==
    /\ cl.pc = "upd_read"
    /\ cl' = UpdateRead(cl)
    /\ UNCHANGED <<procVars, termVars, storeVars, fileVars, ln, dm, sw, sideVars>>

RecoverUpdateWrite ==
    /\ cl.pc = "upd_write"
    /\ stateDir' = UpdateWrite(cl)
    /\ cl' = [cl EXCEPT !.pc = cl.after, !.st = None]
    /\ UNCHANGED <<procVars, termVars, pidDir, now, ret, fileVars, ln, dm, sw, sideVars>>

(* --------------------------------- Spec --------------------------------- *)
Init ==
    /\ alive = [p \in Pids |-> FALSE]
    /\ disp = [p \in Pids |-> "default"]
    /\ \E mine \in BOOLEAN : owned = [p \in Pids |-> mine]
    /\ hasPsutil \in BOOLEAN
    /\ shutdown_requested = FALSE
    /\ time = 0
    /\ signals = <<>>
    /\ tp = TpIdle
    /\ pidDir = <<>>
    /\ stateDir = <<>>
    /\ now = 0
    /\ ret = NoRet
    /\ wr = WrIdle
    /\ rd = NoRead
    /\ FlowIdle
    /\ SideIdle

Next ==
    \/ LaunchPopen
    \/ LaunchWritePid
    \/ LaunchWriteState
    \/ LaunchRaise
    \/ DaemonRegisterSignals
    \/ DaemonUpdateRead
    \/ DaemonUpdateWrite
    \/ DaemonCheckBefore
    \/ DaemonExecute
    \/ DaemonCheckAfter
    \/ DaemonDeletePid
    \/ DaemonExit
    \/ StopReadPid
    \/ StopUpdateRead
    \/ StopUpdateWrite
    \/ StopTerminate
    \/ TpCheck
    \/ TpSendTerm
    \/ TpPoll
    \/ TpSleep
    \/ TpKillCheck
    \/ TpSendKill
    \/ TpFinal
    \/ StopDeletePid
    \/ StopReturn
    \/ CleanupStale
    \/ RecoverRead
    \/ RecoverUpdateRead
    \/ RecoverUpdateWrite

Spec == Init /\ [][Next]_vars

(* ============ SpecMon: WorkflowMonitor against a changing store ======== *)
\* In SpecMon `now` is the wall clock in seconds, read by datetime.now() and
\* by time.time() alike.
CacheTtl == 5
DefaultPollInterval == 1
WaitTimeouts == {None} \cup {Some(t) : t \in 0..MaxTimeout}

\* mutant: an entry whose age equals the TTL is still served
get_workflow_status_ServesAtTtl(cache, sdir, w, use_cache, t) ==
    IF use_cache /\ w \in DOMAIN cache /\ t - cache[w][2] <= CacheTtl
    THEN [ret |-> Some(cache[w][1]), cache |-> cache, read |-> FALSE]
    ELSE LET state == read_state(sdir, w) IN
         [ret |-> state,
          cache |-> IF state # None THEN Replace(cache, w, <<state[1], t>>)
                    ELSE cache,
          read |-> TRUE]

\* get_workflow_status: [ret |-> the value returned, cache |-> _cache
\* afterwards, read |-> whether the state file was read]
get_workflow_status(cache, sdir, w, use_cache, t) ==
    IF use_cache /\ w \in DOMAIN cache /\ t - cache[w][2] < CacheTtl
    THEN [ret |-> Some(cache[w][1]), cache |-> cache, read |-> FALSE]
    ELSE LET state == read_state(sdir, w) IN
         [ret |-> state,
          cache |-> IF state # None THEN Replace(cache, w, <<state[1], t>>)
                    ELSE cache,
          read |-> TRUE]

\* the dictionary after cls._cache[id] = (state, now) for every listed state
CacheAfterList(cache, listed, t) ==
    [w \in DOMAIN cache \cup {listed[i].workflow_id : i \in DOMAIN listed} |->
        IF \E i \in DOMAIN listed : listed[i].workflow_id = w
        THEN <<listed[CHOOSE i \in DOMAIN listed : listed[i].workflow_id = w], t>>
        ELSE cache[w]]

MonitorBusy == mon.wait.pc # "idle"

GetWorkflowStatus(use_cache) ==
    /\ ~MonitorBusy
    /\ \E r \in {get_workflow_status(mon.cache, stateDir, W, use_cache, now)} :
        /\ mon' = [mon EXCEPT !.cache = r.cache,
                              !.seen = IF r.read /\ r.ret # None
                                       THEN Replace(@, W, <<r.ret[1], now>>)
                                       ELSE @,
                              !.absent = @ \/ (~use_cache /\ r.ret = None)]
        /\ ret' = [op |-> "get_workflow_status", arg |-> use_cache, value |-> r.ret]
    /\ UNCHANGED <<pidDir, stateDir, now, procVars, termVars, fileVars, flowVars,
                   hd, up, io>>

\* ret.arg: the cache as the call found it
ListActiveWorkflows ==
    /\ ~MonitorBusy
    /\ \E listed \in {MonitorListActive(pidDir, stateDir)} :
        /\ mon' = [mon EXCEPT !.cache = CacheAfterList(@, listed, now),
                              !.seen = CacheAfterList(@, listed, now)]
        /\ ret' = [op |-> "list_active_workflows", arg |-> mon.cache,
                   value |-> listed]
    /\ UNCHANGED <<pidDir, stateDir, now, procVars, termVars, fileVars, flowVars,
                   hd, up, io>>

ClearCache ==
    /\ ~MonitorBusy
    /\ mon.cache # <<>>
    /\ mon' = [mon EXCEPT !.cache = <<>>]
    /\ ret' = [op |-> "clear_cache", arg |-> None, value |-> None]
    /\ UNCHANGED <<pidDir, stateDir, now, procVars, termVars, fileVars, flowVars,
                   hd, up, io>>

\* start_time = time.time()
WaitCall(timeout) ==
    /\ ~MonitorBusy
    /\ mon' = [mon EXCEPT !.wait = [pc |-> "poll", timeout |-> timeout,
                                    start |-> now]]
    /\ ret' = NoRet
    /\ UNCHANGED <<pidDir, stateDir, now, procVars, termVars, fileVars, flowVars,
                   hd, up, io>>

WaitReturn(value) ==
    [op |-> "wait_for_completion", arg |-> mon.wait.timeout, value |-> value]

\* state = cls.get_workflow_status(workflow_id, use_cache=False)
\* if state and state.status in ["completed", "failed", "stopped"]: return state
WaitPoll ==
    /\ mon.wait.pc = "poll"
    /\ \E r \in {get_workflow_status(mon.cache, stateDir, W, FALSE, now)} :
       LET terminal == r.ret # None /\ r.ret[1].status \in TerminalStatuses IN
        /\ mon' = [mon EXCEPT
                     !.cache = r.cache,
                     !.seen = IF r.ret # None THEN Replace(@, W, <<r.ret[1], now>>)
                              ELSE @,
                     !.wait = IF terminal THEN WaitIdle
                              ELSE [@ EXCEPT !.pc = "check"]]
        /\ ret' = IF terminal THEN WaitReturn(r.ret) ELSE ret
    /\ UNCHANGED <<pidDir, stateDir, now, procVars, termVars, fileVars, flowVars,
                   hd, up, io>>

\* if timeout is not None: if time.time() - start_time >= timeout: return None
WaitCheck ==
    /\ mon.wait.pc = "check"
    /\ LET expired == /\ mon.wait.timeout # None
                      /\ now - mon.wait.start >= mon.wait.timeout[1] IN
        /\ mon' = [mon EXCEPT !.wait = IF expired THEN WaitIdle
                                       ELSE [@ EXCEPT !.pc = "sleep"]]
        /\ ret' = IF expired THEN WaitReturn(None) ELSE ret
    /\ UNCHANGED <<pidDir, stateDir, now, procVars, termVars, fileVars, flowVars,
                   hd, up, io>>

\* time.sleep(poll_interval); the clock of the model stops at MaxClock
WaitSleep ==
    /\ mon.wait.pc = "sleep"
    /\ mon' = [mon EXCEPT !.wait.pc = "poll"]
    /\ now' = IF now + DefaultPollInterval <= MaxClock
              THEN now + DefaultPollInterval ELSE MaxClock
    /\ UNCHANGED <<pidDir, stateDir, ret, procVars, termVars, fileVars, flowVars,
                   hd, up, io>>

\* time passes
Tick ==
    /\ now < MaxClock
    /\ now' = now + 1
    /\ ret' = NoRet
    /\ UNCHANGED <<pidDir, stateDir, procVars, termVars, fileVars, flowVars,
                   sideVars>>

\* another process (daemon, stop_workflow, cleanup) updates the status of W
EnvUpdateState(status) ==
    /\ \E r \in {update_state(stateDir, W, [status |-> status], now)} :
        /\ r.ret # None
        /\ stateDir' = r.dir
    /\ ret' = NoRet
    /\ UNCHANGED <<pidDir, now, procVars, termVars, fileVars, flowVars,
                   sideVars>>

\* cleanup_completed_workflows removes the record of W
EnvDeleteState ==
    /\ IsExpired(stateDir, W, now + 1)
    /\ stateDir' = delete_state(stateDir, W)
    /\ ret' = NoRet
    /\ UNCHANGED <<pidDir, now, procVars, termVars, fileVars, flowVars,
                   sideVars>>

\* the record of W as launch_workflow leaves it once the daemon runs, or none
InitMon ==
    /\ alive = [p \in Pids |-> FALSE]
    /\ disp = [p \in Pids |-> "handler"]
    /\ owned = [p \in Pids |-> TRUE]
    /\ hasPsutil = FALSE
    /\ shutdown_requested = FALSE
    /\ time = 0
    /\ signals = <<>>
    /\ tp = TpIdle
    /\ now = 0
    /\ pidDir = <<>>
    /\ stateDir \in {<<>>, [w \in {W} |-> Doc(WorkflowState(w, IssueOf(w), "running",
                                               DaemonPid(w), 0, 0, NONE, NONE))]}
    /\ ret = NoRet
    /\ wr = WrIdle
    /\ rd = NoRead
    /\ FlowIdle
    /\ SideIdle

NextMon ==
    \/ \E use_cache \in BOOLEAN : GetWorkflowStatus(use_cache)
    \/ ClearCache
    \/ Tick
    \/ \E status \in Statuses \ {"initializing"} : EnvUpdateState(status)
    \/ EnvDeleteState

SpecMon == InitMon /\ [][NextMon]_vars

(* ---------------- SpecWait: wait_for_completion, step by step ---------- *)
NextWait ==
    \/ \E timeout \in WaitTimeouts : WaitCall(timeout)
    \/ WaitPoll
    \/ WaitCheck
    \/ WaitSleep
    \/ Tick
    \/ \E status \in Statuses \ {"initializing"} : EnvUpdateState(status)
    \/ EnvDeleteState

\* a call of wait_for_completion keeps taking its steps
SpecWait ==
    /\ InitMon
    /\ [][NextWait]_vars
    /\ WF_vars(WaitPoll)
    /\ WF_vars(WaitCheck)
    /\ WF_vars(WaitSleep)

(* ---------------- SpecList: list_active_workflows ---------------------- *)
\* PID files and state files of any kind, a state file possibly corrupt
InitList ==
    /\ alive \in [Pids -> BOOLEAN]
    /\ disp = [p \in Pids |-> "handler"]
    /\ owned = [p \in Pids |-> TRUE]
    /\ hasPsutil = FALSE
    /\ shutdown_requested = FALSE
    /\ time = 0
    /\ signals = <<>>
    /\ tp = TpIdle
    /\ now = 0
    /\ pidDir \in InitPidFiles
    /\ \E S \in SUBSET WorkflowIds : \E corrupt \in SUBSET S :
         stateDir = [w \in S |->
                        IF w \in corrupt THEN Garbage
                        ELSE Doc(WorkflowState(w, IssueOf(w), "running",
                                               DaemonPid(w), 0, 0, NONE, NONE))]
    /\ ret = NoRet
    /\ wr = WrIdle
    /\ rd = NoRead
    /\ FlowIdle
    /\ SideIdle

NextList ==
    \/ ListActiveWorkflows
    \/ \E status \in Statuses \ {"initializing"} : EnvUpdateState(status)
    \/ \E w \in WorkflowIds : DaemonCrash(w)

SpecList == InitList /\ [][NextList]_vars

(* ============ SpecUpd: concurrent update_state on one record =========== *)
\* the statuses each caller passes: workflow_daemon.main, stop_workflow
UpdaterStatuses(u) ==
    IF u = "stop_workflow" THEN {"stopped"} ELSE {"running", "completed", "failed"}
\* the keyword arguments of the call that passes this status
UpdatesFor(status) ==
    IF status = "failed"
    THEN [status |-> status, error_message |-> ExecFailedMessage]
    ELSE [status |-> status]

\* existing_state = read_state(workflow_id); state_dict.update(updates)
UpdRead(u, status) ==
    /\ up[u].pc = "idle"
    /\ read_state(stateDir, W) # None
    /\ up' = [up EXCEPT ![u] = [pc |-> "stamp",
                 base |-> Some(read_state(stateDir, W)[1].status),
                 rec |-> Some(Merge(read_state(stateDir, W)[1],
                                    UpdatesFor(status)))]]
    /\ ret' = NoRet
    /\ UNCHANGED <<pidDir, stateDir, now, procVars, termVars, fileVars, flowVars,
                   mon, hd, io>>

\* state_dict["updated_at"] = datetime.now()
UpdStamp(u) ==
    /\ up[u].pc = "stamp"
    /\ up' = [up EXCEPT ![u] = [pc |-> "write", base |-> up[u].base,
                 rec |-> Some([up[u].rec[1] EXCEPT !.updated_at = now])]]
    /\ ret' = NoRet
    /\ UNCHANGED <<pidDir, stateDir, now, procVars, termVars, fileVars, flowVars,
                   mon, hd, io>>

\* updated_state = WorkflowState(**state_dict); write_state(updated_state)
UpdWrite(u) ==
    /\ up[u].pc = "write"
    /\ stateDir' = IF ValidWorkflowState(up[u].rec[1])
                   THEN write_state(stateDir, up[u].rec[1]) ELSE stateDir
    /\ up' = [up EXCEPT ![u] = [pc |-> "idle", base |-> None, rec |-> None]]
    /\ ret' = [op |-> "update_state", arg |-> u, value |-> up[u].rec]
    /\ UNCHANGED <<pidDir, now, procVars, termVars, fileVars, flowVars,
                   mon, hd, io>>

InitUpd == InitMon /\ W \in DOMAIN stateDir

NextUpd ==
    \/ \E u \in Updaters : \E status \in UpdaterStatuses(u) : UpdRead(u, status)
    \/ \E u \in Updaters : UpdStamp(u)
    \/ \E u \in Updaters : UpdWrite(u)
    \/ Tick

SpecUpd == InitUpd /\ [][NextUpd]_vars

(* ============ SpecIO: what a file holds and what a read returns ======== *)
\* A file: missing, unreadable (read_text raises an OSError), undecodable
\* (its bytes are not text in the encoding), or text. The text of a PID file is
\* a sequence of characters; the text of a state file is the JSON value it
\* denotes, or none when json.loads rejects it.
TextFile(text) == [c |-> "text", text |-> text, json |-> None]
JsonFile(value) == [c |-> "text", text |-> <<>>, json |-> Some(value)]
NotJsonFile == [c |-> "text", text |-> <<>>, json |-> None]
JsonObject(dict) == [j |-> "object", o |-> dict]
JsonOther(kind) == [j |-> kind, o |-> <<>>]

\* the exception classes involved and their base classes
ExcBase ==
    [FileNotFoundError |-> "OSError", PermissionError |-> "OSError",
     JSONDecodeError |-> "ValueError", UnicodeDecodeError |-> "ValueError",
     ValidationError |-> "ValueError", ValueError |-> "Exception",
     TypeError |-> "Exception", OSError |-> "Exception"]
IsSubclass(e, h) == e = h \/ ExcBase[e] = h
\* try: body  except handlers: return None
ExceptReturnNone(result, handlers) ==
    IF result.out = "raise" /\ \E h \in handlers : IsSubclass(result.exc, h)
    THEN Return(None)
    ELSE result

\* pid_file.read_text() / state_file.read_text()
read_text(file) ==
    IF file.c = "missing" THEN Raise("FileNotFoundError")
    ELSE IF file.c = "unreadable" THEN Raise("PermissionError")
    ELSE IF file.c = "undecodable" THEN Raise("UnicodeDecodeError")
    ELSE Return(file)

\* str.strip(): blanks and newlines at both ends go
IsSpace(ch) == ch \in {" ", "\n"}
RECURSIVE Strip(_)
Strip(text) ==
    IF text = <<>> THEN text
    ELSE IF IsSpace(Head(text)) THEN Strip(Tail(text))
    ELSE IF IsSpace(Last(text)) THEN Strip(SubSeq(text, 1, Len(text) - 1))
    ELSE text

\* read_pid on the file of the workflow
read_pid_file(file) ==
    LET content == read_text(file) IN
    LET body == IF content.out = "raise" THEN content
                ELSE IF ParseInt(Strip(content.value.text)) = None
                     THEN Raise("ValueError")
                     ELSE Return(ParseInt(Strip(content.value.text))) IN
    ExceptReturnNone(body, {"FileNotFoundError", "ValueError", "OSError"})

\* datetime values: seconds and microseconds
Timestamps == [s : {0, 1}, us : {0, 1}]
\* datetime.isoformat(): the fraction is printed only when microsecond # 0
IsoFormat(ts) ==
    [text |-> "iso", s |-> ts.s, frac |-> IF ts.us = 0 THEN None ELSE Some(ts.us)]
NotIsoText == [text |-> "other", s |-> 0, frac |-> None]
\* mutant: the seconds are not parsed
fromisoformat_DropsSeconds(str) ==
    IF str.text = "iso"
    THEN Return([s |-> 0, us |-> IF str.frac = None THEN 0 ELSE str.frac[1]])
    ELSE Raise("ValueError")
\* datetime.fromisoformat(str)
fromisoformat(str) ==
    IF str.text = "iso"
    THEN Return([s |-> str.s, us |-> IF str.frac = None THEN 0 ELSE str.frac[1]])
    ELSE Raise("ValueError")

\* state.model_dump(), isoformat() of the datetime values, json.dump
StateText(state) ==
    JsonFile(JsonObject([state EXCEPT !.started_at = IsoFormat(@),
                                       !.updated_at = IsoFormat(@)]))

StateFields ==
    {"workflow_id", "issue_id", "status", "pid", "started_at", "updated_at",
     "current_step", "error_message"}
TimeFields == {"started_at", "updated_at"}

\* for key in ["started_at", "updated_at"]:
\*     if key in state_dict and isinstance(state_dict[key], str):
\*         state_dict[key] = datetime.fromisoformat(state_dict[key])
ParseTimeFields(value) ==
    IF value.j \in {"number", "null"} THEN Raise("TypeError")
    ELSE IF value.j # "object" THEN Return(value)
    ELSE LET keys == TimeFields \cap DOMAIN value.o IN
         IF \E k \in keys : fromisoformat(value.o[k]).out = "raise"
         THEN Raise("ValueError")
         ELSE Return(JsonObject(
                  [k \in DOMAIN value.o |->
                      IF k \in keys THEN fromisoformat(value.o[k]).value
                      ELSE value.o[k]]))

\* WorkflowState(**state_dict)
Construct(value) ==
    IF value.j # "object" THEN Raise("TypeError")
    ELSE IF DOMAIN value.o = StateFields /\ ValidWorkflowState(value.o)
         THEN Return(Some(value.o))
         ELSE Raise("ValidationError")

\* read_state on the file of the workflow
read_state_file(file) ==
    LET content == read_text(file) IN
    LET loaded == IF content.out = "raise" THEN content
                  ELSE IF content.value.json = None THEN Raise("JSONDecodeError")
                  ELSE Return(content.value.json[1]) IN
    LET parsed == IF loaded.out = "raise" THEN loaded
                  ELSE ParseTimeFields(loaded.value) IN
    LET body == IF parsed.out = "raise" THEN parsed ELSE Construct(parsed.value) IN
    ExceptReturnNone(body, {"FileNotFoundError", "JSONDecodeError",
                            "ValidationError", "OSError"})

\* the inputs
SamplePids == {1, 10, 305}
SampleStates ==
    {WorkflowState(W, IssueOf(W), st, DPid, started, updated, NONE, msg) :
        st \in {"running", "failed"}, started \in {[s |-> 0, us |-> 1]},
        updated \in Timestamps, msg \in {NONE}}
\* what a PID file may hold that write_pid did not put there
DamagedPidFiles ==
    {NoFile, [NoFile EXCEPT !.c = "unreadable"], [NoFile EXCEPT !.c = "undecodable"],
     TextFile(<<>>), TextFile(<<"x">>), TextFile(<<"1", " ", "2">>)}
\* what a state file may hold that write_state did not put there
DamagedStateFiles ==
    {NoFile, [NoFile EXCEPT !.c = "unreadable"], [NoFile EXCEPT !.c = "undecodable"],
     NotJsonFile,
     JsonFile(JsonOther("null")), JsonFile(JsonOther("number")),
     JsonFile(JsonOther("array")), JsonFile(JsonOther("string")),
     JsonFile(JsonObject([workflow_id |-> W])),
     JsonFile(JsonObject([StateText(CHOOSE s \in SampleStates : TRUE).json[1].o
                             EXCEPT !.status = "unknown"])),
     JsonFile(JsonObject([StateText(CHOOSE s \in SampleStates : TRUE).json[1].o
                             EXCEPT !.updated_at = NotIsoText]))}

\* write_pid(W, pid): the file holds str(pid) once os.replace has run
IoWritePid(pid) ==
    /\ io' = [io EXCEPT !.pidFile = TextFile(PidText(pid)),
                        !.wrotePid = Some(pid),
                        !.op = "write_pid", !.res = Return(None)]
    /\ UNCHANGED <<procVars, termVars, storeVars, fileVars, flowVars, mon, hd, up>>

\* another program writes the pid followed by a newline
IoEchoPid(pid) ==
    /\ io' = [io EXCEPT !.pidFile = TextFile(PidText(pid) \o <<"\n">>),
                        !.wrotePid = Some(pid),
                        !.op = "write_pid", !.res = Return(None)]
    /\ UNCHANGED <<procVars, termVars, storeVars, fileVars, flowVars, mon, hd, up>>

\* write_state(state): the file holds the JSON text once os.replace has run
IoWriteState(state) ==
    /\ io' = [io EXCEPT !.stateFile = StateText(state),
                        !.wroteState = Some(state),
                        !.writes = IF @ < 2 THEN @ + 1 ELSE @,
                        !.op = "write_state", !.res = Return(None)]
    /\ UNCHANGED <<procVars, termVars, storeVars, fileVars, flowVars, mon, hd, up>>

\* the PID file is removed, made unreadable or overwritten by something else
IoDamagePid(file) ==
    /\ io' = [io EXCEPT !.pidFile = file, !.wrotePid = None,
                        !.op = "none", !.res = Return(None)]
    /\ UNCHANGED <<procVars, termVars, storeVars, fileVars, flowVars, mon, hd, up>>

IoDamageState(file) ==
    /\ io' = [io EXCEPT !.stateFile = file, !.wroteState = None, !.writes = 0,
                        !.op = "none", !.res = Return(None)]
    /\ UNCHANGED <<procVars, termVars, storeVars, fileVars, flowVars, mon, hd, up>>

IoReadPid ==
    /\ io' = [io EXCEPT !.op = "read_pid", !.res = read_pid_file(io.pidFile)]
    /\ UNCHANGED <<procVars, termVars, storeVars, fileVars, flowVars, mon, hd, up>>

IoReadState ==
    /\ io' = [io EXCEPT !.op = "read_state", !.res = read_state_file(io.stateFile)]
    /\ UNCHANGED <<procVars, termVars, storeVars, fileVars, flowVars, mon, hd, up>>

InitIO ==
    /\ InitMon
    /\ stateDir = <<>>

NextIO ==
    \/ \E pid \in SamplePids : IoWritePid(pid)
    \/ \E pid \in SamplePids : IoEchoPid(pid)
    \/ \E state \in SampleStates : IoWriteState(state)
    \/ \E file \in DamagedPidFiles : IoDamagePid(file)
    \/ \E file \in DamagedStateFiles : IoDamageState(file)
    \/ IoReadPid
    \/ IoReadState

SpecIO == InitIO /\ [][NextIO]_vars

(* ============ SpecWatch: StateFileEventHandler ========================= *)
\* the ids callbacks are registered for
WatchedIds == {WfNames[1], WfNames[2]}
\* what a callback does when called: it returns, raises an exception derived
\* from Exception, or raises one that is not (SystemExit, KeyboardInterrupt)
CallbackKinds == {"returns", "raises", "exits"}
\* a modification event: is_directory, and the stem and suffix of src_path
Events ==
    [is_directory : {FALSE}, stem : WatchedIds \cup {TmpStem}, suffix : {"json", "txt"}]
      \cup [is_directory : {TRUE}, stem : {WfNames[1]}, suffix : {"json"}]

\* mutant: no debounce check
on_modified_NoDebounce(h, event) ==
    IF event.is_directory
    THEN [h EXCEPT !.last = [event |-> Some(event), outcome |-> "directory"]]
    ELSE IF event.suffix # "json"
         THEN [h EXCEPT !.last = [event |-> Some(event), outcome |-> "not_json"]]
    ELSE IF event.stem \notin DOMAIN h.callbacks
         THEN [h EXCEPT !.last = [event |-> Some(event), outcome |-> "no_callback"]]
    ELSE [h EXCEPT
            !.last_event_time = Replace(@, event.stem, h.clock),
            !.last = [event |-> Some(event),
                      outcome |-> IF h.callbacks[event.stem] = "returns"
                                  THEN "called"
                                  ELSE IF h.callbacks[event.stem] = "raises"
                                       THEN "swallowed" ELSE "propagated"]]

\* mutant: the callback is called outside any try
on_modified_NoTry(h, event) ==
    IF event.is_directory
    THEN [h EXCEPT !.last = [event |-> Some(event), outcome |-> "directory"]]
    ELSE IF event.suffix # "json"
         THEN [h EXCEPT !.last = [event |-> Some(event), outcome |-> "not_json"]]
    ELSE IF event.stem \notin DOMAIN h.callbacks
         THEN [h EXCEPT !.last = [event |-> Some(event), outcome |-> "no_callback"]]
    ELSE LET last_time == IF event.stem \in DOMAIN h.last_event_time
                          THEN h.last_event_time[event.stem] ELSE 0 IN
         IF h.clock - last_time < DebounceInterval
         THEN [h EXCEPT !.last = [event |-> Some(event), outcome |-> "debounced"]]
         ELSE [h EXCEPT
                 !.last_event_time = Replace(@, event.stem, h.clock),
                 !.last = [event |-> Some(event),
                           outcome |-> IF h.callbacks[event.stem] = "returns"
                                       THEN "called" ELSE "propagated"]]

\* on_modified(event): the handler afterwards; last.outcome tells how the call
\* went: ignored (directory, not_json, no_callback, debounced), callback called
\* and returned (called), its exception caught (swallowed), or its exception
\* left on_modified (propagated)
on_modified(h, event) ==
    IF event.is_directory
    THEN [h EXCEPT !.last = [event |-> Some(event), outcome |-> "directory"]]
    ELSE IF event.suffix # "json"
         THEN [h EXCEPT !.last = [event |-> Some(event), outcome |-> "not_json"]]
    ELSE IF event.stem \notin DOMAIN h.callbacks
         THEN [h EXCEPT !.last = [event |-> Some(event), outcome |-> "no_callback"]]
    ELSE LET last_time == IF event.stem \in DOMAIN h.last_event_time
                          THEN h.last_event_time[event.stem] ELSE 0 IN
         IF h.clock - last_time < DebounceInterval
         THEN [h EXCEPT !.last = [event |-> Some(event), outcome |-> "debounced"]]
         ELSE [h EXCEPT
                 !.last_event_time = Replace(@, event.stem, h.clock),
                 !.last = [event |-> Some(event),
                           outcome |-> IF h.callbacks[event.stem] = "returns"
                                       THEN "called"
                                       ELSE IF h.callbacks[event.stem] = "raises"
                                            THEN "swallowed" ELSE "propagated"]]

Invoked(h) == h.last.outcome \in {"called", "swallowed", "propagated"}

\* register_callback(workflow_id, callback)
RegisterCallback(id, kind) ==
    /\ hd.running
    /\ hd' = [hd EXCEPT !.callbacks = Replace(@, id, kind),
                        !.last = [event |-> None, outcome |-> "none"]]
    /\ UNCHANGED <<procVars, termVars, storeVars, fileVars, flowVars, mon, up, io>>

\* unregister_callback(workflow_id)
UnregisterCallback(id) ==
    /\ hd.running
    /\ id \in DOMAIN hd.callbacks
    /\ hd' = [hd EXCEPT !.callbacks = Remove(@, id),
                        !.last_event_time = Remove(@, id),
                        !.forgotten = @ \cup {id},
                        !.last = [event |-> None, outcome |-> "none"]]
    /\ UNCHANGED <<procVars, termVars, storeVars, fileVars, flowVars, mon, up, io>>

\* the observer thread delivers an event; an exception that leaves
\* on_modified ends the thread
OnModified(event) ==
    /\ hd.running
    /\ \E h \in {on_modified(hd, event)} :
        hd' = IF Invoked(h)
              THEN [h EXCEPT !.dispatched = Replace(@, event.stem, hd.clock),
                             !.forgotten = @ \ {event.stem},
                             !.swallowed = IF h.last.outcome = "swallowed"
                                           THEN @ \cup {event.stem} ELSE @,
                             !.running = h.last.outcome # "propagated"]
              ELSE h
    /\ UNCHANGED <<procVars, termVars, storeVars, fileVars, flowVars, mon, up, io>>

\* 50 ms pass
WatchTick ==
    /\ hd.clock < MaxWatchClock
    /\ hd' = [hd EXCEPT !.clock = @ + 1,
                        !.last = [event |-> None, outcome |-> "none"]]
    /\ UNCHANGED <<procVars, termVars, storeVars, fileVars, flowVars, mon, up, io>>

InitWatch ==
    /\ InitMon
    /\ stateDir = <<>>

NextWatch ==
    \/ \E id \in WatchedIds, kind \in CallbackKinds : RegisterCallback(id, kind)
    \/ \E id \in WatchedIds : UnregisterCallback(id)
    \/ \E event \in Events : OnModified(event)
    \/ WatchTick

SpecWatch == InitWatch /\ [][NextWatch]_vars

(* ------------- SpecWatchFair: the handler, with time passing ----------- *)
\* time keeps passing; nothing obliges a file to be modified again
SpecWatchFair == InitWatch /\ [][NextWatch]_vars /\ WF_vars(WatchTick)

(* ========= SpecObserver: on_modified in the observer thread ============ *)
\* watchdog calls on_modified in the thread of the observer, one event at a
\* time, while the owner of the watcher calls register_callback and
\* unregister_callback in its own thread; nothing locks callbacks or
\* last_event_time. on_modified is taken in three steps: up to the lookup of
\* the callback, the debounce check with the stamp, and the call.
NoOutcome == [event |-> None, outcome |-> "none"]

\* lines 49-62: the event is filtered and the callback looked up; `first`
\* marks the first event for the id since it was registered again
ObserverLookup(event) ==
    /\ hd.running
    /\ hd.om.pc = "idle"
    /\ hd' = IF event.is_directory
             THEN [hd EXCEPT !.last = [event |-> Some(event), outcome |-> "directory"]]
             ELSE IF event.suffix # "json"
             THEN [hd EXCEPT !.last = [event |-> Some(event), outcome |-> "not_json"]]
             ELSE IF event.stem \notin DOMAIN hd.callbacks
             THEN [hd EXCEPT !.last = [event |-> Some(event), outcome |-> "no_callback"]]
             ELSE [hd EXCEPT !.om = [pc |-> "debounce", event |-> Some(event),
                                     callback |-> Some(hd.callbacks[event.stem]),
                                     first |-> event.stem \in hd.forgotten],
                             !.forgotten = @ \ {event.stem},
                             !.last = NoOutcome]
    /\ UNCHANGED <<procVars, termVars, storeVars, fileVars, flowVars, mon, up, io>>

\* lines 65-71: the debounce check, and the stamp when it passes
ObserverStamp ==
    /\ hd.om.pc = "debounce"
    /\ LET workflow_id == hd.om.event[1].stem
           last_time == IF workflow_id \in DOMAIN hd.last_event_time
                        THEN hd.last_event_time[workflow_id] ELSE 0 IN
       hd' = IF hd.clock - last_time < DebounceInterval
             THEN [hd EXCEPT !.last = [event |-> hd.om.event, outcome |-> "debounced"],
                             !.om = OmIdle]
             ELSE [hd EXCEPT !.last_event_time = Replace(@, workflow_id, hd.clock),
                             !.om.pc = "call",
                             !.last = NoOutcome]
    /\ UNCHANGED <<procVars, termVars, storeVars, fileVars, flowVars, mon, up, io>>

\* lines 74-78: the callback found at the lookup is called
ObserverCall ==
    /\ hd.om.pc = "call"
    /\ LET workflow_id == hd.om.event[1].stem
           outcome == IF hd.om.callback[1] = "returns" THEN "called"
                      ELSE IF hd.om.callback[1] = "raises" THEN "swallowed"
                      ELSE "propagated" IN
       hd' = [hd EXCEPT !.last = [event |-> hd.om.event, outcome |-> outcome],
                        !.dispatched = Replace(@, workflow_id, hd.clock),
                        !.running = outcome # "propagated",
                        !.om = OmIdle]
    /\ UNCHANGED <<procVars, termVars, storeVars, fileVars, flowVars, mon, up, io>>

\* register_callback(workflow_id, callback), in the owner's thread
OwnerRegister(id, kind) ==
    /\ hd.running
    /\ hd' = [hd EXCEPT !.callbacks = Replace(@, id, kind)]
    /\ UNCHANGED <<procVars, termVars, storeVars, fileVars, flowVars, mon, up, io>>

\* unregister_callback(workflow_id), in the owner's thread, registered or not
OwnerUnregister(id) ==
    /\ hd.running
    /\ hd' = [hd EXCEPT !.callbacks = Remove(@, id),
                        !.last_event_time = Remove(@, id),
                        !.forgotten = IF id \in DOMAIN hd.callbacks
                                      THEN @ \cup {id} ELSE @]
    /\ UNCHANGED <<procVars, termVars, storeVars, fileVars, flowVars, mon, up, io>>

NextObserver ==
    \/ \E id \in WatchedIds, kind \in CallbackKinds : OwnerRegister(id, kind)
    \/ \E id \in WatchedIds : OwnerUnregister(id)
    \/ \E event \in Events : ObserverLookup(event)
    \/ ObserverStamp
    \/ ObserverCall
    \/ WatchTick

SpecObserver == InitWatch /\ [][NextObserver]_vars

(* ================= SpecSweep: the retention sweep alone ================ *)
\* The sweep is applied to every store of the workflows: PID file or not, state
\* file missing, unreadable or a record of any status, stamped before, at or
\* after the cutoff. `now` is in hours.
SweepStamps == {0, 1, 2}
SweepMaxAges == {DefaultMaxAgeHours - 1, DefaultMaxAgeHours}
SweepRecords(w) ==
    {WorkflowState(w, IssueOf(w), st, DaemonPid(w), 0, t, NONE,
                   IF st = "failed" THEN ExecFailedMessage ELSE NONE) :
        st \in Statuses, t \in SweepStamps}

\* cleanup_completed_workflows(max_age_hours)
SweepCompleted(max_age_hours) ==
    \E r \in {cleanup_completed_workflows(pidDir, stateDir, now, max_age_hours)} :
        /\ pidDir' = r.pids
        /\ stateDir' = r.states
        /\ ret' = [op |-> "cleanup_completed_workflows", arg |-> max_age_hours,
                   value |-> r.cleaned]
        /\ UNCHANGED <<now, procVars, termVars, fileVars, flowVars, sideVars>>

InitSweep ==
    /\ alive = [p \in Pids |-> FALSE]
    /\ disp = [p \in Pids |-> "handler"]
    /\ owned = [p \in Pids |-> TRUE]
    /\ hasPsutil = FALSE
    /\ shutdown_requested = FALSE
    /\ time = 0
    /\ signals = <<>>
    /\ tp = TpIdle
    /\ now = DefaultMaxAgeHours + 1
    /\ pidDir \in InitPidFiles
    /\ \E S \in SUBSET WorkflowIds :
         stateDir \in
           {f \in [S -> {Garbage}
                          \cup {Doc(r) : r \in UNION {SweepRecords(w) : w \in S}}] :
               \A w \in S : f[w] # Garbage => f[w][1].workflow_id = w}
    /\ ret = NoRet
    /\ wr = WrIdle
    /\ rd = NoRead
    /\ FlowIdle
    /\ SideIdle

NextSweep == \E m \in SweepMaxAges : SweepCompleted(m)

SpecSweep == InitSweep /\ [][NextSweep]_vars

(* ================= SpecMerge: update_state, call by call =============== *)
\* update_state(W, **updates) as one step, on a state file that is missing,
\* unreadable, fails validation or holds a record, with every combination of
\* the fields its callers pass. `now` is in seconds.
UpdateValues ==
    [status |-> Statuses \cup {"bogus"}, current_step |-> {"implement"},
     error_message |-> {ExceptionMessage}]
UpdateArgs ==
    UNION {{u \in [D -> UNION {UpdateValues[f] : f \in D}] :
              \A f \in D : u[f] \in UpdateValues[f]} :
           D \in SUBSET (DOMAIN UpdateValues)}
MergeRecords ==
    {WorkflowState(W, IssueOf(W), st, DPid, 0, 0, step, msg) :
        st \in Statuses \cup {"bogus"}, step \in {NONE, "plan"},
        msg \in {NONE, ExecFailedMessage}}

\* StateManager.update_state(W, **updates)
UpdateState(updates) ==
    \E r \in {update_state(stateDir, W, updates, now)} :
        /\ stateDir' = r.dir
        /\ ret' = [op |-> "update_state", arg |-> updates, value |-> r.ret]
        /\ UNCHANGED <<pidDir, now, procVars, termVars, fileVars, flowVars, sideVars>>

InitMerge ==
    /\ alive = [p \in Pids |-> FALSE]
    /\ disp = [p \in Pids |-> "handler"]
    /\ owned = [p \in Pids |-> TRUE]
    /\ hasPsutil = FALSE
    /\ shutdown_requested = FALSE
    /\ time = 0
    /\ signals = <<>>
    /\ tp = TpIdle
    /\ now = 1
    /\ pidDir = <<>>
    /\ \E other \in {<<>>, [w \in {WfNames[2]} |->
                              Doc(WorkflowState(w, IssueOf(w), "running",
                                                DaemonPid(w), 0, 0, NONE, NONE))]} :
         stateDir \in {other, Replace(other, W, Garbage)}
                        \cup {Replace(other, W, Doc(r)) : r \in MergeRecords}
    /\ ret = NoRet
    /\ wr = WrIdle
    /\ rd = NoRead
    /\ FlowIdle
    /\ SideIdle

NextMerge ==
    \/ \E updates \in UpdateArgs : UpdateState(updates)
    \/ Tick

SpecMerge == InitMerge /\ [][NextMerge]_vars

(* ============ SpecStop: stop_workflow against any process ============== *)
\* stop_workflow(W, timeout) alone, step by step down to the steps of
\* terminate_process, on a PID file that is missing, unreadable or names any
\* pid, whose process is dead or alive, may or may not be signalled, ends on
\* SIGTERM or ignores it, and may exit on its own at any moment. The steps of
\* the call are taken sooner or later; nothing else is.
StopPidFiles ==
    {<<>>, [w \in {W} |-> <<"x">>]} \cup {[w \in {W} |-> PidText(p)] : p \in Pids}

InitStop ==
    /\ alive \in [Pids -> BOOLEAN]
    /\ \E d \in {"default", "ignore"} : disp = [p \in Pids |-> d]
    /\ \E mine \in BOOLEAN : owned = [p \in Pids |-> mine]
    /\ hasPsutil \in BOOLEAN
    /\ shutdown_requested = FALSE
    /\ time = 0
    /\ signals = <<>>
    /\ tp = TpIdle
    /\ pidDir \in StopPidFiles
    /\ stateDir \in {<<>>, [w \in {W} |-> Doc(WorkflowState(w, IssueOf(w), "running",
                                               DaemonPid(w), 0, 0, NONE, NONE))]}
    /\ now = 0
    /\ ret = NoRet
    /\ wr = WrIdle
    /\ rd = NoRead
    /\ FlowIdle
    /\ SideIdle

StopStep ==
    \/ StopReadPid
    \/ StopUpdateRead
    \/ StopUpdateWrite
    \/ StopTerminate
    \/ TpCheck
    \/ TpSendTerm
    \/ TpPoll
    \/ TpSleep
    \/ TpKillCheck
    \/ TpSendKill
    \/ TpFinal
    \/ StopDeletePid
    \/ StopReturn

NextStop ==
    \/ StopReadPid
    \/ StopUpdateRead
    \/ StopUpdateWrite
    \/ StopTerminate
    \/ TpCheck
    \/ TpSendTerm
    \/ TpPoll
    \/ TpSleep
    \/ TpKillCheck
    \/ TpSendKill
    \/ TpFinal
    \/ StopDeletePid
    \/ StopReturn
    \/ \E p \in Pids : ProcExit(p)

SpecStop == InitStop /\ [][NextStop]_vars /\ WF_vars(StopStep)

(* ========== SpecReuse: stop_workflow after the daemon has died ========= *)
\* W has been launched: its PID file names the daemon, its record says
\* running, and the daemon is in execute_workflow. The daemon may die without
\* touching its files, and the operating system may then give its pid to a
\* process that has nothing to do with W. stop_workflow(W) runs at any moment.
DaemonLive == dm.pc \notin {"notstarted", "exited", "killed"}

\* the daemon is killed or crashes; its PID file stays
DaemonDies ==
    /\ DaemonLive
    /\ alive[DPid]
    /\ alive' = [alive EXCEPT ![DPid] = FALSE]
    /\ dm' = DmGone
    /\ UNCHANGED <<disp, owned, hasPsutil, shutdown_requested, termVars,
                   storeVars, fileVars, ln, sw, cl, sideVars>>

\* fork() in an unrelated program returns the pid the daemon had
PidReuse ==
    /\ ~DaemonLive
    /\ ~alive[DPid]
    /\ alive' = [alive EXCEPT ![DPid] = TRUE]
    /\ \E d \in {"default", "ignore"} : disp' = [disp EXCEPT ![DPid] = d]
    /\ UNCHANGED <<owned, hasPsutil, shutdown_requested, termVars,
                   storeVars, fileVars, flowVars, sideVars>>

InitReuse ==
    /\ alive = [p \in Pids |-> p = DPid]
    /\ disp = [p \in Pids |-> IF p = DPid THEN "handler" ELSE "default"]
    /\ \E mine \in BOOLEAN : owned = [p \in Pids |-> mine]
    /\ hasPsutil \in BOOLEAN
    /\ shutdown_requested = FALSE
    /\ time = 0
    /\ signals = <<>>
    /\ tp = TpIdle
    /\ pidDir = [w \in {W} |-> PidText(DPid)]
    /\ stateDir = [w \in {W} |-> Doc(WorkflowState(w, IssueOf(w), "running",
                                                    DPid, 0, 0, NONE, NONE))]
    /\ now = 0
    /\ ret = NoRet
    /\ wr = WrIdle
    /\ rd = NoRead
    /\ ln = LnIdle
    /\ dm = [DmIdle EXCEPT !.pc = "exec", !.calls = <<"running">>]
    /\ sw = SwIdle
    /\ cl = ClIdle
    /\ SideIdle

NextReuse ==
    \/ DaemonDies
    \/ PidReuse
    \/ StopReadPid
    \/ StopUpdateRead
    \/ StopUpdateWrite
    \/ StopTerminate
    \/ TpCheck
    \/ TpSendTerm
    \/ TpPoll
    \/ TpSleep
    \/ TpKillCheck
    \/ TpSendKill
    \/ TpFinal
    \/ StopDeletePid
    \/ StopReturn

SpecReuse == InitReuse /\ [][NextReuse]_vars

(* ========================= claims: status lifecycle ==================== *)
\* C1: once the persisted status of W is completed, failed or stopped, no step
\* of the launcher, the daemon, stop_workflow or the cleanup pass changes it to
\* a different value.
C1_TerminalAbsorbing ==
    [][StatusOf(stateDir) \in TerminalStatuses
         => StatusOf(stateDir') = StatusOf(stateDir)]_vars

\* C2: when stop_workflow(W, timeout) was called while the status of W was
\* running and returned true, then once the daemon is gone and the launcher
\* has returned, the persisted status is stopped and get_workflow_pid(W) is
\* absent.
C2_StopMidRun ==
    (/\ sw.pc = "returned"
     /\ sw.success
     /\ sw.statusAtCall = "running"
     /\ ln.pc = "returned"
     /\ ~alive[DPid])
        => (StatusOf(stateDir) = "stopped" /\ get_workflow_pid(pidDir) = None)

\* C3: every change of the persisted status of W is an edge of the state
\* machine: initializing -> running | failed | stopped, and
\* running -> completed | failed | stopped.
StatusEdges ==
    ({"none"} \X Statuses)
    \cup ({"initializing"} \X {"running", "failed", "stopped"})
    \cup ({"running"} \X {"completed", "failed", "stopped"})
C3_StateMachine ==
    [][StatusOf(stateDir') # StatusOf(stateDir)
         => <<StatusOf(stateDir), StatusOf(stateDir')>> \in StatusEdges]_vars

(* ====================== claims: atomic file writes ===================== *)
\* C4: a read that runs while a write of the same workflow id is under way
\* returns the complete previous value (absent when there was no file) or the
\* complete new value.
C4_ReadersNeverSeePartial ==
    [][ ( /\ rd' # rd
          /\ WrActive
          /\ rd'.op = wr.kind /\ rd'.w = wr.w ) =>
            rd'.value \in {ParseFile(wr.kind, wr.prev), Some(wr.value)}
      ]_vars

C4_Witness ==
    /\ wr.pc = "replace"
    /\ wr.kind = "state"
    /\ wr.prev # None
    /\ rd.op = "state" /\ rd.w = wr.w
    /\ rd.value = ParseFile("state", wr.prev)
    /\ rd.value # Some(wr.value)

IsNonEmpty(msg) == msg # NONE /\ msg # ""

\* the state records that are orphaned: a workflow's record with an active
\* status and no PID file
OrphanedRecords ==
    {w \in WorkflowIds \cap DOMAIN stateDir :
        /\ w \notin DOMAIN pidDir
        /\ stateDir[w] # Garbage
        /\ stateDir[w][1].status \in ActiveStatuses}

\* C6: recover_orphaned_workflows marks failed, with a non-empty
\* error_message, exactly the orphaned records, returns exactly their ids and
\* leaves every other file of the state directory unchanged.
C6_OrphanRecovery ==
    [][ ret'.op = "recover_orphaned_workflows" =>
          /\ Range(ret'.value) = OrphanedRecords
          /\ DOMAIN stateDir' = DOMAIN stateDir
          /\ \A w \in DOMAIN stateDir :
                IF w \in OrphanedRecords
                THEN /\ stateDir'[w] # Garbage
                     /\ stateDir'[w][1].status = "failed"
                     /\ IsNonEmpty(stateDir'[w][1].error_message)
                ELSE stateDir'[w] = stateDir[w]
      ]_vars

LivePidFiles ==
    {f \in DOMAIN pidDir : \E p \in Pids : pidDir[f] = PidText(p) /\ alive[p]}

\* C8: cleanup_stale_pids removes exactly the PID files whose pid is not
\* alive, returns their ids, leaves the others as they were, and
\* list_active_workflows then lists exactly the live (workflow id, pid) pairs.
C8_StaleCleanup ==
    [][ ret'.op = "cleanup_stale_pids" =>
          /\ DOMAIN pidDir' = LivePidFiles
          /\ \A f \in LivePidFiles : pidDir'[f] = pidDir[f]
          /\ Range(ret'.value) = DOMAIN pidDir \ LivePidFiles
          /\ Len(ret'.value) = Cardinality(DOMAIN pidDir \ LivePidFiles)
          /\ Range(list_active_workflows(pidDir')) =
                {x \in (LivePidFiles \X Pids) : pidDir[x[1]] = PidText(x[2])}
      ]_vars

C8_Witness ==
    /\ ret.op = "cleanup_stale_pids"
    /\ Len(ret.value) = 1
    /\ Cardinality(DOMAIN pidDir) = 1
    /\ Len(list_active_workflows(pidDir)) = 1

(* ======================= claims: terminate_process ===================== *)
TermDeliveredTo(log, pid) ==
    \E i \in 1..Len(log) :
        log[i].sig = SIGTERM /\ log[i].pid = pid /\ log[i].ok

\* C9: termination escalation. SIGKILL is sent only after SIGTERM was sent to
\* the same pid, once the timeout has elapsed, and after the process was
\* probed alive; and when the target took SIGTERM and ignores it, the call
\* returns true with the process dead.
C9_Escalation ==
    [][ /\ (Len(signals') > Len(signals) /\ Last(signals').sig = SIGKILL) =>
            /\ \E i \in 1..Len(signals) :
                   signals[i].sig = SIGTERM /\ signals[i].pid = Last(signals').pid
            /\ time - tp.start >= tp.timeout * TicksPerSecond
            /\ tp.probe
        /\ ( /\ tp'.pc = "returned" /\ tp.pc # "returned"
             /\ TermDeliveredTo(signals', tp'.pid)
             /\ disp[tp'.pid] = "ignore" ) =>
            (tp'.result /\ ~alive'[tp'.pid])
      ]_vars

C9_Witness ==
    /\ tp.pc = "returned" /\ tp.result
    /\ Len(signals) = 2
    /\ signals[1].sig = SIGTERM /\ signals[1].ok
    /\ signals[2].sig = SIGKILL /\ signals[2].ok
    /\ disp[tp.pid] = "ignore"
    /\ signals[2].at - tp.start >= TicksPerSecond

\* C10: a target that is not alive when terminate_process starts (pid <= 0
\* included) makes it return true at once, with no os.kill call made.
C10_DeadTargetIdempotent ==
    [][ ( /\ tp.pc = "check" /\ tp' # tp
          /\ (tp.pid <= 0 \/ ~alive[tp.pid]) ) =>
            /\ tp'.pc = "returned"
            /\ tp'.result = TRUE
            /\ signals' = <<>>
      ]_vars

C10_Witness ==
    /\ tp.pc = "returned" /\ tp.result /\ ~tp.probe
    /\ signals = <<>>
    /\ tp.pid > 0 /\ ~alive[tp.pid]


\* C11: terminate_process returns true exactly when the process is dead at
\* the moment it returns; the step that returns sets result to TRUE iff the
\* target is not alive in the state it leaves.
C11_ReturnsTrueIffDead ==
    [][(tp.pc # "returned" /\ tp'.pc = "returned" /\ tp'.pid \in Pids)
         => (tp'.result <=> ~alive'[tp'.pid])]_vars


(* ============================ claims: launch =========================== *)
\* C12: whenever launch_workflow raises, neither a PID file nor a state file
\* of the workflow exists in the state the raise leaves.
C12_FailedLaunchLeavesNothing ==
    [][(ln.pc # "raised" /\ ln'.pc = "raised")
         => (W \notin DOMAIN pidDir' /\ W \notin DOMAIN stateDir')]_vars


\* C13: when launch_workflow returns, the PID file of W holds the pid of the
\* spawned daemon and the state record of W exists with that workflow_id,
\* issue_id and pid; the record the launcher writes has status initializing,
\* and no state record exists before the launcher has written the PID file.
LaunchedRecord(rec) ==
    /\ rec.workflow_id = W
    /\ rec.issue_id = IssueOf(W)
    /\ rec.pid = DPid
C13_LaunchPostcondition ==
    [][/\ (ln.pc # "returned" /\ ln'.pc = "returned")
            => /\ read_pid(pidDir', W) = Some(DPid)
               /\ read_state(stateDir', W) # None
               /\ LaunchedRecord(read_state(stateDir', W)[1])
               /\ read_state(stateDir', W)[1].status = "initializing"
       /\ (ln'.pc \in {"idle", "write_pid"}) => W \notin DOMAIN stateDir'
      ]_vars


(* ========================= claims: stop_workflow ======================= *)
\* C14: stop_workflow on a workflow with no readable PID record returns false
\* in its first step: no signal is sent, no process ends, and neither the
\* state record nor any PID file changes.
C14_StopWithoutPid ==
    [][(sw.pc = "idle" /\ sw'.pc # "idle" /\ read_pid(pidDir, W) = None)
         => /\ sw'.pc = "returned"
            /\ ~sw'.success
            /\ UNCHANGED <<signals, alive, shutdown_requested, stateDir, pidDir, tp>>
      ]_vars
\* stop_workflow has returned without a PID record although W was launched
\* and has a state record
C14_Witness ==
    /\ sw.pc = "returned"
    /\ signals = <<>>
    /\ tp = TpIdle
    /\ ret = NoRet
    /\ ln.pc = "returned"
    /\ read_state(stateDir, W) # None
    /\ read_pid(pidDir, W) = None


\* C15: at every moment after launch_workflow has returned, if the daemon of
\* W is alive then the PID record of W exists and holds the daemon's pid.
C15_PidRecordOfLiveDaemon ==
    (ln.pc = "returned" /\ alive[DPid]) => read_pid(pidDir, W) = Some(DPid)


(* ========================= claims: happy path ========================== *)
\* C16: when launch_workflow has returned and the daemon is executing the
\* workflow, with no stop and no cleanup under way, the persisted status
\* of W is running.
C16_RunningWhileExecuting ==
    (/\ ln.pc = "returned"
     /\ alive[DPid]
     /\ dm.pc = "exec"
     /\ sw.pc = "idle"
     /\ cl.pc = "idle")
        => StatusOf(stateDir) = "running"


\* C17: once a daemon whose workflow succeeded has exited and the record of W
\* says completed, the record carries a current_step the daemon wrote on the
\* way (it is non-empty).
C17_CurrentStepWritten ==
    (dm.pc = "exited" /\ dm.exit = 0 /\ StatusOf(stateDir) = "completed")
        => read_state(stateDir, W)[1].current_step # NONE


\* C18: after a daemon whose workflow succeeded has exited, with the launch
\* returned and no stop ever requested, the persisted status of W is
\* completed, its PID file is gone and list_active_workflows does not list W.
C18_CompletedAfterExit ==
    (/\ dm.pc = "exited"
     /\ dm.exit = 0
     /\ ln.pc = "returned"
     /\ sw.pc = "idle")
        => /\ StatusOf(stateDir) = "completed"
           /\ W \notin DOMAIN pidDir
           /\ \A i \in 1..Len(MonitorListActive(pidDir, stateDir)) :
                  MonitorListActive(pidDir, stateDir)[i].workflow_id # W


(* ======================= claims: workflow_daemon ======================= *)
DaemonReturns == dm.pc # "exited" /\ dm'.pc = "exited"
LastStatusCalled(calls) == calls[Len(calls) - 1]

C23_ProbesAgree ==
    \A pid \in PidArgs :
        /\ pid <= 0 => ~is_process_running(pid) /\ ~is_process_alive(pid)
        /\ pid > 0 =>
            /\ is_process_running(pid) = (ProbeOutcome(pid) \in {"ok", "denied"})
            /\ is_process_alive(pid) = (ProbeOutcome(pid) \in {"ok", "denied"})
        /\ is_process_alive(pid) = is_process_running(pid)

\* ---------------------------------------------------------------- claims: record fields

\* C29: across every write of the record of a workflow that lands in the
\* store, started_at stays what it was and updated_at does not decrease.
C29_Timestamps ==
    [][\A w \in DOMAIN stateDir \cap DOMAIN stateDir' :
         (read_state(stateDir, w) # None /\ read_state(stateDir', w) # None) =>
            /\ read_state(stateDir', w)[1].started_at
                 = read_state(stateDir, w)[1].started_at
            /\ read_state(stateDir', w)[1].updated_at
                 >= read_state(stateDir, w)[1].updated_at
      ]_vars


\* C30: in every reachable state, a state record with a non-empty
\* error_message has status failed.
C30_ErrorMessageOnlyWhenFailed ==
    \A w \in DOMAIN stateDir :
        read_state(stateDir, w) # None =>
            (read_state(stateDir, w)[1].error_message # NONE
                => read_state(stateDir, w)[1].status = "failed")

(* ======================= claims: WorkflowMonitor ======================== *)
HasLivePid(w) ==
    /\ w \in DOMAIN pidDir
    /\ read_pid(pidDir, w) # None
    /\ read_pid(pidDir, w)[1] \in Pids
    /\ alive[read_pid(pidDir, w)[1]]

ActiveRecords ==
    {read_state(stateDir, w)[1] :
        w \in {x \in WorkflowIds : HasLivePid(x) /\ read_state(stateDir, x) # None}}

C28_WitnessExpired ==
    /\ ret.op = "get_workflow_status"
    /\ ret.arg = TRUE
    /\ W \in DOMAIN mon.cache
    /\ mon.cache[W][2] = now
    /\ now >= CacheTtl
    /\ ret.value = read_state(stateDir, W)

WaitReturns == mon.wait.pc # "idle" /\ mon'.wait.pc = "idle"

\* what wait_for_completion may return, and when
C27_ReturnsOnlyTerminalOrTimeout ==
    [][/\ (mon.wait.pc = "idle" /\ mon'.wait.pc # "idle") => mon'.wait.pc = "poll"
       /\ (mon.wait.pc = "poll" /\ mon'.wait # mon.wait
              /\ StatusOf(stateDir) \in TerminalStatuses)
            => (WaitReturns /\ ret'.value = read_state(stateDir, W))
       /\ WaitReturns =>
            /\ ret'.op = "wait_for_completion"
            /\ ret'.value # None =>
                 /\ ret'.value = read_state(stateDir, W)
                 /\ ret'.value[1].status \in TerminalStatuses
            /\ ret'.value = None =>
                 /\ mon.wait.pc = "check"
                 /\ mon.wait.timeout # None
                 /\ now - mon.wait.start >= mon.wait.timeout[1]
      ]_vars

\* once the record of W has a terminal status while a wait without timeout
\* is under way, the wait returns a record or the record is deleted
C27_NoTimeoutWaitReturns ==
    (mon.wait.pc # "idle" /\ mon.wait.timeout = None
        /\ StatusOf(stateDir) \in TerminalStatuses)
    ~> \/ (ret.op = "wait_for_completion" /\ ret.value # None)
       \/ read_state(stateDir, W) = None

\* C27: wait_for_completion polls before it checks the timeout, returns a
\* state only if its status is completed, failed or stopped, returns None only
\* when the timeout has elapsed after a poll that saw no terminal status, and
\* a wait with no timeout eventually returns the record of W once W has
\* reached a terminal status and the record is not deleted.
C27_WaitForCompletion ==
    C27_ReturnsOnlyTerminalOrTimeout /\ C27_NoTimeoutWaitReturns

(* ========================== claims: read paths ========================= *)
\* C21: read_pid and read_state never raise; they return None when the file
\* is missing, unreadable, not parsable or fails schema validation, and the
\* stored value otherwise.
C21_ReadsAreTotal ==
    /\ io.op = "read_pid" => io.res = Return(io.wrotePid)
    /\ io.op = "read_state" => io.res = Return(io.wroteState)


SameToTheSecond(a, b) ==
    /\ \A f \in StateFields \ TimeFields : a[f] = b[f]
    /\ \A f \in TimeFields : a[f].s = b[f].s

ForRegistered(event) ==
    /\ ~event.is_directory
    /\ event.suffix = "json"
    /\ event.stem \in DOMAIN hd.callbacks
\* a callback for id was dispatched less than the debounce interval ago
RecentDispatch(id) ==
    /\ id \in DOMAIN hd.dispatched
    /\ hd.clock - hd.dispatched[id] < DebounceInterval

HadItReturned(event) ==
    LET h == on_modified([hd EXCEPT !.callbacks[event.stem] = "returns"], event) IN
    [h EXCEPT !.callbacks = hd.callbacks,
              !.dispatched = Replace(@, event.stem, hd.clock),
              !.forgotten = @ \ {event.stem}]

OldTerminal(max_age_hours) ==
    {w \in DOMAIN stateDir :
        /\ stateDir[w] # Garbage
        /\ stateDir[w][1].status \in TerminalStatuses
        /\ stateDir[w][1].updated_at < now - max_age_hours}

Readable(sdir) ==
    /\ W \in DOMAIN sdir
    /\ sdir[W] # Garbage
    /\ sdir[W][1].status \in Statuses
\* the merge of the updates would pass validation
Acceptable(updates) ==
    "status" \in DOMAIN updates => updates.status \in Statuses

C33_UnregisterStops ==
    [][/\ ObserverCall => hd.om.event[1].stem \in DOMAIN hd.callbacks
       /\ (ObserverStamp /\ hd.om.first) => hd'.last.outcome # "debounced"
       /\ \A id \in WatchedIds :
            (OwnerUnregister(id) /\ id \notin DOMAIN hd.callbacks \cup hd.forgotten)
               => hd' = hd
      ]_vars
\* an event delivered while no callback is registered for its id calls nothing
C33_UnregisteredEventIgnored ==
    [][\A event \in Events :
         (ObserverLookup(event) /\ event.stem \notin DOMAIN hd.callbacks)
            => (hd'.om = hd.om /\ ~Invoked(hd'))
      ]_vars

\* the last event delivered was a modification of <id>.json with this outcome
LastOutcome(id, outcomes) ==
    /\ hd.last.event # None
    /\ hd.last.event[1].stem = id
    /\ hd.last.outcome \in outcomes

\* C36: every modification event of the state file of a workflow with a
\* registered callback is followed, at that event or later, by a call of a
\* callback for that workflow, unless the callback is unregistered or the
\* watcher has stopped in the meantime.
C36_NoChangeUnnotified ==
    \A id \in WatchedIds :
        LastOutcome(id, {"debounced"})
          ~> \/ LastOutcome(id, {"called", "swallowed", "propagated"})
             \/ id \notin DOMAIN hd.callbacks
             \/ ~hd.running

(* ====================== claims: cache and deletion ===================== *)
\* C37: once get_workflow_status(W, use_cache=False) has returned None, a
\* get_workflow_status(W, use_cache=True) that follows returns None as well
\* (in SpecMon a record that is gone is not written again).
C37_NoResurrection ==
    (ret.op = "get_workflow_status" /\ ret.arg /\ mon.absent) => ret.value = None

(* ===================== claims: concurrent updates ====================== *)
\* the record without its stamp
Unstamped(rec) == [rec EXCEPT !.updated_at = 0]

\* C34: when the write of an update_state call lands, the record stored then
\* is the record stored just before with the fields that call named replaced
\* (and updated_at), so that concurrent calls take effect one after the other;
\* and the status the call had read is still the status stored, so that no
\* status written in between is replaced by one computed before it.
C34_NoLostUpdate ==
    [][\A u \in Updaters :
         (UpdWrite(u) /\ read_state(stateDir, W) # None) =>
            LET stored == read_state(stateDir, W)[1]
                after == read_state(stateDir', W)[1] IN
            /\ Unstamped(after)
                 = Unstamped(Merge(stored, UpdatesFor(up[u].rec[1].status)))
            /\ stored.status = up[u].base[1]
      ]_vars

(* ================= claims: recovery against live daemons =============== *)
\* the daemon spawned for W is running, or has returned exit code 0
DaemonAliveOrSucceeded ==
    \/ alive[DPid]
    \/ dm.pc = "exited" /\ dm.exit = 0

\* C35: while the daemon of W is alive or has finished successfully, W never
\* has a state record that is initializing or running and no PID file, and so
\* recover_orphaned_workflows never takes W for an orphan and never writes
\* status failed to its record (stated for a daemon its user may signal).
C35_NoFalseOrphan ==
    owned[DPid] =>
        /\ DaemonAliveOrSucceeded => ~IsOrphan(pidDir, stateDir, W)
        /\ (cl.pc \in {"upd_read", "upd_write"} /\ cl.recovered = <<W>>)
              => ~DaemonAliveOrSucceeded

(* ==================== claims: stopping always ends ===================== *)
\* the signals of one kind sent so far
Sent(sig) == {i \in DOMAIN signals : signals[i].sig = sig}
\* the longest terminate_process can take after its SIGTERM: the timeout, one
\* sleep begun just before it elapsed, and the pause after SIGKILL
LongestTermination ==
    tp.timeout * TicksPerSecond + (PollInterval + MaxJitter) + (KillGrace + MaxJitter)

C39_SignalsOnlyOwnDaemon ==
    [][(Len(signals') > Len(signals) /\ signals'[Len(signals')].ok)
          => (signals'[Len(signals')].pid = DPid /\ DaemonLive)
      ]_vars

====
